---- MODULE Spec2Model ----
(***************************************************************************)
(* Open-CoWork: the agent tool-execution boundary.                         *)
(*                                                                         *)
(*   - the Question Store   (renderer/stores/todoStore.ts, useQuestionStore)*)
(*   - the Todo Store       (renderer/stores/todoStore.ts, useTodoStore)    *)
(*   - the todoWrite / askQuestion / bash tools (renderer/services/ai/tools.ts)*)
(*   - the fs:bash IPC handler and its blocked patterns (main/ipc/index.ts) *)
(*                                                                         *)
(* JavaScript values: `undefined` is the string Undefined, `null` is the   *)
(* record Null; array indices are 0-based in the code and the fields that  *)
(* hold them (currentIndex) keep the code's 0-based value.                 *)
(***************************************************************************)
EXTENDS Integers, Sequences, FiniteSets, TLC

VARIABLES
    activeQuestionSet,  \* useQuestionStore: QuestionSet | null
    todos,              \* useTodoStore: Todo[]
    bash,               \* the bash tool call in flight, and what it handed to exec
    browser,            \* settings.preferredBrowser, the dialog flag, the browser tool call in flight
    permissions,        \* sessionPermissions (a Map) and the persisted permission rows
    marketplace,        \* SkillsMarketplace: the query, the pending timeout, the searches in
                        \* flight, the displayed registry skills, the loading flag
    calls,              \* the executors of the tool catalog in flight, one per slot
    skills,             \* the rows of the skill table (the persistence collaborator)
    result              \* what the last store / tool call was and returned

vars == <<activeQuestionSet, todos, bash, browser, calls, permissions, marketplace, skills, result>>

----------------------------------------------------------------------------
(* JavaScript values *)

Undefined == "<undefined>"
Null == [kind |-> "null"]

\* JS truthiness of a string-or-undefined value: undefined and "" are falsy.
Falsy(v) == v = Undefined \/ v = ""
Truthy(v) == ~Falsy(v)

\* a || b
OrElse(a, b) == IF Truthy(a) THEN a ELSE b

Min(a, b) == IF a <= b THEN a ELSE b
Max(a, b) == IF a >= b THEN a ELSE b

\* Date.now(): the clock readings a call can see.
Times == {1, 2}

\* obj[k] = v on a Record<string, ...>
Put(f, k, v) == [x \in (DOMAIN f) \cup {k} |-> IF x = k THEN v ELSE f[x]]
EmptyMap == <<>>

Void == [op |-> "void", arg |-> Undefined, val |-> Undefined]
Ret(o, a, v) == [op |-> o, arg |-> a, val |-> v]

----------------------------------------------------------------------------
(* Question Store *)

MaxQuestions == 2

Opt(i, l) == [id |-> i, label |-> l]
Q(i, text, opts, ac) == [id |-> i, question |-> text, options |-> opts, allowCustom |-> ac]

\* The questions an askQuestion call supplies.  The schema asks for string
\* ids and 2..5 options; it does not ask for ids to be non-empty or distinct.
QuestionInputs ==
    { Q("a", "Proceed?", <<Opt("x", "Yes"), Opt("y", "No")>>, TRUE),
      Q("a", "Colour?",  <<Opt("x", "Red"), Opt("y", "Blue")>>, TRUE),
      Q("",  "Which?",   <<Opt("", "First"), Opt("y", "Second")>>, FALSE) }

SeqsUpTo(S, lo, hi) == UNION { [1..n -> S] : n \in lo..hi }

QuestionLists == SeqsUpTo(QuestionInputs, 1, MaxQuestions)

\* Arguments the UI or another caller can hand to selectOption / setCustomAnswer.
QuestionIdArgs == {"a", "q-0", "q-1", "zz"}
OptionIdArgs == {"", "x", "y"}
AnswerTexts == {"", "t"}

\* Variant: the fallback id counts questions from 1.
newQuestion_oneBased(q, i) ==
    [id |-> OrElse(q.id, "q-" \o ToString(i + 1)),
     question |-> q.question,
     options |-> q.options,
     allowCustom |-> q.allowCustom,
     selectedOptionId |-> Undefined,
     customAnswer |-> Undefined]

\* setQuestions: the stored Question for the i-th (0-based) supplied one.
newQuestion(q, i) ==
    [id |-> OrElse(q.id, "q-" \o ToString(i)),
     question |-> q.question,
     options |-> q.options,
     allowCustom |-> q.allowCustom,
     selectedOptionId |-> Undefined,
     customAnswer |-> Undefined]

questionSetId(now) == "qs-" \o ToString(now)

setQuestions(questions, now) ==
    [id |-> questionSetId(now),
     questions |-> [i \in 1..Len(questions) |-> newQuestion(questions[i], i - 1)],
     currentIndex |-> 0,
     submitted |-> FALSE]

\* Variant: selecting an option leaves the custom answer in place.
selectOption_keepsCustom(aqs, questionId, optionId) ==
    IF aqs = Null THEN aqs
    ELSE [aqs EXCEPT !.questions =
            [i \in 1..Len(aqs.questions) |->
                IF aqs.questions[i].id = questionId
                THEN [aqs.questions[i] EXCEPT !.selectedOptionId = optionId]
                ELSE aqs.questions[i]]]

selectOption(aqs, questionId, optionId) ==
    IF aqs = Null THEN aqs
    ELSE [aqs EXCEPT !.questions =
            [i \in 1..Len(aqs.questions) |->
                IF aqs.questions[i].id = questionId
                THEN [aqs.questions[i] EXCEPT !.selectedOptionId = optionId,
                                              !.customAnswer = Undefined]
                ELSE aqs.questions[i]]]

setCustomAnswer(aqs, questionId, answer) ==
    IF aqs = Null THEN aqs
    ELSE [aqs EXCEPT !.questions =
            [i \in 1..Len(aqs.questions) |->
                IF aqs.questions[i].id = questionId
                THEN [aqs.questions[i] EXCEPT !.selectedOptionId = Undefined,
                                              !.customAnswer = answer]
                ELSE aqs.questions[i]]]

\* Variant: the index is advanced without the upper clamp.
nextQuestion_unclamped(aqs) ==
    IF aqs = Null THEN aqs
    ELSE [aqs EXCEPT !.currentIndex = aqs.currentIndex + 1]

nextQuestion(aqs) ==
    IF aqs = Null THEN aqs
    ELSE [aqs EXCEPT !.currentIndex = Min(aqs.currentIndex + 1, Len(aqs.questions) - 1)]

prevQuestion(aqs) ==
    IF aqs = Null THEN aqs
    ELSE [aqs EXCEPT !.currentIndex = Max(aqs.currentIndex - 1, 0)]

\* q.options.find((o) => o.id === id)?.label
RECURSIVE findLabel(_, _, _)
findLabel(options, id, i) ==
    IF i > Len(options) THEN Undefined
    ELSE IF options[i].id = id THEN options[i].label
    ELSE findLabel(options, id, i + 1)

answerOf(q) ==
    [selectedOption |-> IF Truthy(q.selectedOptionId)
                        THEN findLabel(q.options, q.selectedOptionId, 1)
                        ELSE Undefined,
     customAnswer |-> q.customAnswer]

\* for (const q of questions) answers[q.id] = ...
RECURSIVE answersLoop(_, _, _)
answersLoop(questions, i, answers) ==
    IF i > Len(questions) THEN answers
    ELSE answersLoop(questions, i + 1, Put(answers, questions[i].id, answerOf(questions[i])))

\* submitAnswers: the returned snapshot and the new store value.
submitAnswersResult(aqs) ==
    IF aqs = Null THEN EmptyMap ELSE answersLoop(aqs.questions, 1, EmptyMap)

\* Variant: submitting also clears the active set.
submitAnswersStore_clears(aqs) == Null

submitAnswersStore(aqs) ==
    IF aqs = Null THEN aqs ELSE [aqs EXCEPT !.submitted = TRUE]

clearQuestions == Null

hasUnansweredQuestions(aqs) ==
    IF aqs = Null THEN FALSE
    ELSE IF aqs.submitted THEN FALSE
    ELSE \E i \in 1..Len(aqs.questions) :
            Falsy(aqs.questions[i].selectedOptionId) /\ Falsy(aqs.questions[i].customAnswer)

\* askQuestion.execute -> setQuestions; the tool result carries the id
\* setQuestions returns (its local `id`).
AskQuestion ==
    \E questions \in QuestionLists, now \in Times :
        /\ activeQuestionSet' = setQuestions(questions, now)
        /\ result' = Ret("setQuestions", questions, questionSetId(now))
        /\ UNCHANGED <<todos, bash, browser, calls, permissions, marketplace, skills>>

SelectOption ==
    \E questionId \in QuestionIdArgs, optionId \in OptionIdArgs :
        /\ activeQuestionSet' = selectOption(activeQuestionSet, questionId, optionId)
        /\ result' = Void
        /\ UNCHANGED <<todos, bash, browser, calls, permissions, marketplace, skills>>

SetCustomAnswer ==
    \E questionId \in QuestionIdArgs, answer \in AnswerTexts :
        /\ activeQuestionSet' = setCustomAnswer(activeQuestionSet, questionId, answer)
        /\ result' = Void
        /\ UNCHANGED <<todos, bash, browser, calls, permissions, marketplace, skills>>

NextQuestion ==
    /\ activeQuestionSet' = nextQuestion(activeQuestionSet)
    /\ result' = Void
    /\ UNCHANGED <<todos, bash, browser, calls, permissions, marketplace, skills>>

PrevQuestion ==
    /\ activeQuestionSet' = prevQuestion(activeQuestionSet)
    /\ result' = Void
    /\ UNCHANGED <<todos, bash, browser, calls, permissions, marketplace, skills>>

SubmitAnswers ==
    /\ result' = Ret("submitAnswers", Undefined, submitAnswersResult(activeQuestionSet))
    /\ activeQuestionSet' = submitAnswersStore(activeQuestionSet)
    /\ UNCHANGED <<todos, bash, browser, calls, permissions, marketplace, skills>>

ClearQuestions ==
    /\ activeQuestionSet' = clearQuestions
    /\ result' = Ret("clearQuestions", Undefined, Undefined)
    /\ UNCHANGED <<todos, bash, browser, calls, permissions, marketplace, skills>>

HasUnansweredQuestions ==
    /\ result' = Ret("hasUnansweredQuestions", Undefined, hasUnansweredQuestions(activeQuestionSet))
    /\ UNCHANGED <<activeQuestionSet, todos, bash, browser, calls, permissions, marketplace, skills>>

----------------------------------------------------------------------------
(* Todo Store and the todoWrite tool *)

MaxTodos == 2

TodoStatus == {"pending", "in_progress", "completed"}

Todo(i, c, s) == [id |-> i, content |-> c, status |-> s]

\* Math.random().toString(36).substring(2, 9): the suffixes a call can draw.
RandomSuffixes == {"k3f9x2a"}

\* ids of the stored items, in order
TodoIds(ts) == { ts[i].id : i \in 1..Len(ts) }

\* The todos the agent was last told about: those of the last todoWrite result.
ReportedTodos(res) == IF res.op = "todoWrite" THEN res.val.todos ELSE <<>>

\* The items a todoWrite call supplies: new items without an id (absent or
\* empty), an item with an id of the agent's own, and items of the last tool
\* result echoed back, under the id reported, as completed.
TodoArgs(res) ==
    { Todo(Undefined, "Scan repo", "pending"),
      Todo("", "Fix bug", "pending"),
      Todo("a", "Fix bug", "in_progress") }
    \cup { Todo(ReportedTodos(res)[i].id, ReportedTodos(res)[i].content, "completed") :
              i \in 1..Len(ReportedTodos(res)) }

\* Partial<Pick<Todo, 'content' | 'status'>>: Undefined stands for an absent key.
UpdateArgs ==
    { [content |-> Undefined, status |-> "completed"],
      [content |-> "Fix bug", status |-> Undefined] }

\* Variant: every supplied id is replaced by a generated one.
mappedTodos_regenerates(todosArg, now) ==
    [i \in 1..Len(todosArg) |->
        Todo("todo-" \o ToString(now) \o "-" \o ToString(i - 1),
             todosArg[i].content, todosArg[i].status)]

\* todoWrite.execute: todos.map((t, i) => ({ id: t.id || `todo-${Date.now()}-${i}`, ... }))
mappedTodos(todosArg, now) ==
    [i \in 1..Len(todosArg) |->
        Todo(OrElse(todosArg[i].id, "todo-" \o ToString(now) \o "-" \o ToString(i - 1)),
             todosArg[i].content, todosArg[i].status)]

\* Variant: the new list is appended to the stored one.
setTodos_appends(ts, list) == ts \o list

setTodos(ts, list) == list

addTodo(ts, content, now, rnd) ==
    Append(ts, Todo("todo-" \o ToString(now) \o "-" \o rnd, content, "pending"))

\* { ...todo, ...updates }
spread(todo, updates) ==
    [id |-> todo.id,
     content |-> IF updates.content = Undefined THEN todo.content ELSE updates.content,
     status |-> IF updates.status = Undefined THEN todo.status ELSE updates.status]

updateTodo(ts, id, updates) ==
    [i \in 1..Len(ts) |-> IF ts[i].id = id THEN spread(ts[i], updates) ELSE ts[i]]

RECURSIVE filterOut(_, _)
filterOut(ts, id) ==
    IF ts = <<>> THEN <<>>
    ELSE IF Head(ts).id # id THEN <<Head(ts)>> \o filterOut(Tail(ts), id)
    ELSE filterOut(Tail(ts), id)

removeTodo(ts, id) == filterOut(ts, id)

clearTodos == <<>>

todoWriteResult(todosArg, mapped) ==
    [success |-> TRUE, count |-> Len(todosArg), todos |-> mapped]

TodoWrite ==
    \E todosArg \in SeqsUpTo(TodoArgs(result), 0, MaxTodos), now \in Times :
        LET mapped == mappedTodos(todosArg, now) IN
        /\ todos' = setTodos(todos, mapped)
        /\ result' = Ret("todoWrite", todosArg, todoWriteResult(todosArg, mapped))
        /\ UNCHANGED <<activeQuestionSet, bash, browser, calls, permissions, marketplace, skills>>

AddTodo ==
    \E content \in {"Scan repo"}, now \in Times, rnd \in RandomSuffixes :
        /\ Len(todos) < MaxTodos
        /\ todos' = addTodo(todos, content, now, rnd)
        /\ result' = Void
        /\ UNCHANGED <<activeQuestionSet, bash, browser, calls, permissions, marketplace, skills>>

UpdateTodo ==
    \E id \in TodoIds(todos) \cup {"zz"}, updates \in UpdateArgs :
        /\ todos' = updateTodo(todos, id, updates)
        /\ result' = Void
        /\ UNCHANGED <<activeQuestionSet, bash, browser, calls, permissions, marketplace, skills>>

RemoveTodo ==
    \E id \in TodoIds(todos) \cup {"zz"} :
        /\ todos' = removeTodo(todos, id)
        /\ result' = Void
        /\ UNCHANGED <<activeQuestionSet, bash, browser, calls, permissions, marketplace, skills>>

ClearTodos ==
    /\ todos' = clearTodos
    /\ result' = Void
    /\ UNCHANGED <<activeQuestionSet, bash, browser, calls, permissions, marketplace, skills>>

\* The lists a caller installs before the UI edits them: items under the
\* agent's own ids, which setTodos stores as they come.
StoredLists ==
    SeqsUpTo({ Todo("a", "Fix bug", "in_progress"), Todo("b", "Ship", "pending") }, 0, MaxTodos)

SetTodosCall ==
    \E list \in StoredLists :
        /\ todos' = setTodos(todos, list)
        /\ result' = Void
        /\ UNCHANGED <<activeQuestionSet, bash, browser, calls, permissions, marketplace, skills>>

\* updateTodo(id, updates), the list it found kept for the record
UpdateTodoCall ==
    \E id \in TodoIds(todos) \cup {"zz"}, updates \in UpdateArgs :
        /\ todos' = updateTodo(todos, id, updates)
        /\ result' = Ret("updateTodo", [id |-> id, updates |-> updates, before |-> todos], Undefined)
        /\ UNCHANGED <<activeQuestionSet, bash, browser, calls, permissions, marketplace, skills>>

\* removeTodo(id), the list it found kept for the record
RemoveTodoCall ==
    \E id \in TodoIds(todos) \cup {"zz"} :
        /\ todos' = removeTodo(todos, id)
        /\ result' = Ret("removeTodo", [id |-> id, before |-> todos], Undefined)
        /\ UNCHANGED <<activeQuestionSet, bash, browser, calls, permissions, marketplace, skills>>

----------------------------------------------------------------------------
(* Regular expressions, as the blocked patterns use them: a command is a    *)
(* sequence of characters; a pattern is matched anywhere in it (RegExp.test *)
(* without the g flag keeps no state between calls).                        *)

UpperLetters == <<"A","B","C","D","E","F","G","H","I","J","K","L","M",
                  "N","O","P","Q","R","S","T","U","V","W","X","Y","Z">>
LowerLetters == <<"a","b","c","d","e","f","g","h","i","j","k","l","m",
                  "n","o","p","q","r","s","t","u","v","w","x","y","z">>
Digits == {"0","1","2","3","4","5","6","7","8","9"}

Range(f) == { f[i] : i \in DOMAIN f }

\* Variant: no case folding (the patterns without their i flag).
Lower_caseSensitive(c) == c

\* the i flag: characters are compared after case folding
Lower(c) ==
    IF \E i \in 1..26 : UpperLetters[i] = c
    THEN LowerLetters[CHOOSE i \in 1..26 : UpperLetters[i] = c]
    ELSE c

IsWordChar(c) == Lower(c) \in Range(LowerLetters) \cup Digits \cup {"_"}

\* is the character before position p + 1 a word character (p = 0: none)
WordAt(s, p) == p >= 1 /\ p <= Len(s) /\ IsWordChar(s[p])

Chr(cs) == [t |-> "chars", cs |-> cs]
AnyChar == [t |-> "any"]
WordBoundary == [t |-> "wb"]
Cat(rs) == [t |-> "seq", rs |-> rs]
Alt(rs) == [t |-> "alt", rs |-> rs]
Star(r) == [t |-> "star", r |-> r]
Plus(r) == Cat(<<r, Star(r)>>)
Optional(r) == Alt(<<r, Cat(<<>>)>>)
Lit(w) == Cat([i \in 1..Len(w) |-> Chr({w[i]})])
Space == Chr({" ", "\t", "\n", "\r"})
Letter == Chr(Range(LowerLetters))

\* Ends(re, s, P): the positions at which a match of re that starts at a
\* position of P can end; position p stands before the p-th character.
RECURSIVE Ends(_, _, _), SeqEnds(_, _, _, _), StarEnds(_, _, _, _)
Ends(re, s, P) ==
    CASE re.t = "chars" -> { p + 1 : p \in { q \in P : q <= Len(s) /\ Lower(s[q]) \in re.cs } }
      [] re.t = "any"   -> { p + 1 : p \in { q \in P : q <= Len(s) /\ s[q] \notin {"\n", "\r"} } }
      [] re.t = "wb"    -> { p \in P : WordAt(s, p - 1) # WordAt(s, p) }
      [] re.t = "nchars" -> { p + 1 : p \in { q \in P : q <= Len(s) /\ Lower(s[q]) \notin re.cs } }
      [] re.t = "bol"   -> { p \in P : p = 1 }
      [] re.t = "eol"   -> { p \in P : p = Len(s) + 1 }
      [] re.t = "seq"   -> SeqEnds(re.rs, 1, s, P)
      [] re.t = "alt"   -> UNION { Ends(re.rs[k], s, P) : k \in DOMAIN re.rs }
      [] re.t = "star"  -> StarEnds(re.r, s, P, P)
SeqEnds(rs, k, s, P) ==
    IF k > Len(rs) THEN P ELSE SeqEnds(rs, k + 1, s, Ends(rs[k], s, P))
StarEnds(r, s, frontier, acc) ==
    LET more == Ends(r, s, frontier) \ acc
    IN  IF more = {} THEN acc ELSE StarEnds(r, s, more, acc \cup more)

\* pattern.test(command)
Test(re, s) == Ends(re, s, 1..(Len(s) + 1)) # {}

----------------------------------------------------------------------------
(* The bash tool and the fs:bash handler *)

BLOCKED_PATTERNS ==
    << \* /\brm\s+(-[a-zA-Z]*f|-[a-zA-Z]*r|--force|--recursive)/i
       Cat(<<WordBoundary, Lit(<<"r", "m">>), Plus(Space),
             Alt(<<Cat(<<Lit(<<"-">>), Star(Letter), Lit(<<"f">>)>>),
                   Cat(<<Lit(<<"-">>), Star(Letter), Lit(<<"r">>)>>),
                   Lit(<<"-", "-", "f", "o", "r", "c", "e">>), Lit(<<"-", "-", "r", "e", "c", "u", "r", "s", "i", "v", "e">>)>>)>>),
       \* /\brm\s+-rf\b/i
       Cat(<<WordBoundary, Lit(<<"r", "m">>), Plus(Space), Lit(<<"-", "r", "f">>), WordBoundary>>),
       \* /\brm\s+-fr\b/i
       Cat(<<WordBoundary, Lit(<<"r", "m">>), Plus(Space), Lit(<<"-", "f", "r">>), WordBoundary>>),
       \* /\bsudo\s+rm\b/i
       Cat(<<WordBoundary, Lit(<<"s", "u", "d", "o">>), Plus(Space), Lit(<<"r", "m">>), WordBoundary>>),
       \* /\bmkfs\b/i
       Cat(<<WordBoundary, Lit(<<"m", "k", "f", "s">>), WordBoundary>>),
       \* /\bdd\s+.*\bof=/i
       Cat(<<WordBoundary, Lit(<<"d", "d">>), Plus(Space), Star(AnyChar), WordBoundary, Lit(<<"o", "f", "=">>)>>),
       \* /\b:.*\(\).*\{.*:\|.*\}/i
       Cat(<<WordBoundary, Lit(<<":">>), Star(AnyChar), Lit(<<"(", ")">>), Star(AnyChar), Lit(<<"{">>),
             Star(AnyChar), Lit(<<":", "|">>), Star(AnyChar), Lit(<<"}">>)>>),
       \* /\bchmod\s+(-[a-zA-Z]*)?\s*(000|777|a-rwx)/i
       Cat(<<WordBoundary, Lit(<<"c", "h", "m", "o", "d">>), Plus(Space),
             Optional(Cat(<<Lit(<<"-">>), Star(Letter)>>)), Star(Space),
             Alt(<<Lit(<<"0", "0", "0">>), Lit(<<"7", "7", "7">>), Lit(<<"a", "-", "r", "w", "x">>)>>)>>),
       \* /\bchown\s+.*\//i
       Cat(<<WordBoundary, Lit(<<"c", "h", "o", "w", "n">>), Plus(Space), Star(AnyChar), Lit(<<"/">>)>>),
       \* />\s*\/dev\/(sda|hda|null)/i
       Cat(<<Lit(<<">">>), Star(Space), Lit(<<"/", "d", "e", "v", "/">>), Alt(<<Lit(<<"s", "d", "a">>), Lit(<<"h", "d", "a">>), Lit(<<"n", "u", "l", "l">>)>>)>>) >>

\* for (const pattern of patterns) if (pattern.test(command)) ...: the index
\* of the first pattern that matches, 0 when the loop ends without one.
RECURSIVE firstMatch(_, _, _)
firstMatch(patterns, command, k) ==
    IF k > Len(patterns) THEN 0
    ELSE IF Test(patterns[k], command) THEN k
    ELSE firstMatch(patterns, command, k + 1)

\* Variant: the loop stops one pattern short of the end of the list.
blockedBy_skipsLast(command) ==
    firstMatch(SubSeq(BLOCKED_PATTERNS, 1, Len(BLOCKED_PATTERNS) - 1), command, 1)

\* the pattern fs:bash rejects the command for (0: none, the command runs)
blockedBy(command) == firstMatch(BLOCKED_PATTERNS, command, 1)

\* The commands the agent hands to the bash tool.
CmdLs == <<"l", "s">>   \* 'ls'
CmdGitStatus == <<"g", "i", "t", " ", "s", "t", "a", "t", "u", "s">>   \* 'git status'
CmdRmFile == <<"r", "m", " ", "x">>   \* 'rm x'
CmdFarm == <<"f", "a", "r", "m", " ", "-", "f">>   \* 'farm -f'
CmdForkBomb == <<":", "(", ")", "{", " ", ":", "|", ":", "&", " ", "}", ";", ":">>   \* ':(){ :|:& };:'
CmdRmRf == <<"r", "m", " ", "-", "r", "f", " ", "/">>   \* 'rm -rf /'
CmdSudoRmUpper == <<"s", "u", "d", "o", " ", " ", " ", "R", "M", " ", "-", "r", "f", " ", "/">>   \* 'sudo   RM -rf /'
CmdRmUpperFlags == <<"r", "m", "\t", "-", "R", "f", " ", "x">>   \* 'rm\t-Rf x'
CmdRmForce == <<"r", "m", " ", "-", "-", "f", "o", "r", "c", "e", " ", "x">>   \* 'rm --force x'
CmdRmFr == <<"r", "m", " ", "-", "f", "r", " ", "x">>   \* 'rm -fr x'
CmdSudoRm == <<"s", "u", "d", "o", " ", "r", "m", " ", "x">>   \* 'sudo rm x'
CmdMkfs == <<"M", "K", "F", "S", " ", "/", "d">>   \* 'MKFS /d'
CmdDd == <<"d", "d", " ", "i", "f", "=", "a", " ", "o", "f", "=", "b">>   \* 'dd if=a of=b'
CmdForkNamed == <<"f", ":", "(", ")", "{", " ", "f", ":", "|", "f", "&", " ", "}", ";">>   \* 'f:(){ f:|f& };'
CmdChmod == <<"c", "h", "m", "o", "d", " ", "-", "R", " ", "7", "7", "7", " ", "f">>   \* 'chmod -R 777 f'
CmdChown == <<"c", "h", "o", "w", "n", " ", "u", " ", "/", "x">>   \* 'chown u /x'
CmdDevNull == <<"l", "s", " ", ">", "/", "d", "e", "v", "/", "n", "u", "l", "l">>   \* 'ls >/dev/null'

Commands ==
    { CmdLs,
      CmdGitStatus,
      CmdRmFile,
      CmdFarm,
      CmdForkBomb,
      CmdRmRf,
      CmdSudoRmUpper,
      CmdRmUpperFlags,
      CmdRmForce,
      CmdRmFr,
      CmdSudoRm,
      CmdMkfs,
      CmdDd,
      CmdForkNamed,
      CmdChmod,
      CmdChown,
      CmdDevNull }

\* An optional number is <<>> (absent) or <<n>>.
TimeoutArgs == { <<>>, <<0>>, <<1>>, <<30000>>, <<120000>>, <<120001>>, <<200000>> }
CwdArgs == { Undefined, "/work" }

DEFAULT_TIMEOUT == 30000
MAX_TIMEOUT == 120000
HANDLER_DEFAULT_TIMEOUT == 30000

\* n || dflt on an optional number: absent and 0 are falsy
NumOrElse(opt, dflt) == IF opt = <<>> THEN dflt ELSE IF opt[1] = 0 THEN dflt ELSE opt[1]

\* Variant: the caller's timeout is passed on without the cap.
toolTimeout_uncapped(timeout) == NumOrElse(timeout, DEFAULT_TIMEOUT)

\* bash.execute: Math.min(timeout || 30000, 120000)
toolTimeout(timeout) == Min(NumOrElse(timeout, DEFAULT_TIMEOUT), MAX_TIMEOUT)

\* fs:bash: options?.timeout || 30000 and options?.cwd || process.cwd()
handlerTimeout(options) == NumOrElse(<<options.timeout>>, HANDLER_DEFAULT_TIMEOUT)
handlerCwd(options) == OrElse(options.cwd, "process.cwd()")

\* What execAsync can do with a command: resolve with the two streams (the
\* process exited 0), or reject with an Error that carries the streams, the
\* exit code when the process exited by itself, and killed when the timeout
\* ended it.
ExecOutcomes ==
    { [kind |-> "resolve", killed |-> FALSE, code |-> <<>>, stdout |-> "out", stderr |-> "", message |-> ""],
      [kind |-> "resolve", killed |-> FALSE, code |-> <<>>, stdout |-> "", stderr |-> "warn", message |-> ""],
      [kind |-> "reject", killed |-> FALSE, code |-> <<2>>, stdout |-> "out", stderr |-> "err", message |-> "Command failed: cmd err"],
      [kind |-> "reject", killed |-> FALSE, code |-> <<1>>, stdout |-> "", stderr |-> "", message |-> "Command failed: cmd"],
      [kind |-> "reject", killed |-> FALSE, code |-> <<>>, stdout |-> "", stderr |-> "", message |-> "Command failed: cmd"],
      [kind |-> "reject", killed |-> TRUE, code |-> <<>>, stdout |-> "", stderr |-> "", message |-> "Command failed: cmd"] }

Throw(m) == [kind |-> "throw", message |-> m]
Return(v) == [kind |-> "return", value |-> v]
NoReply == [kind |-> "none"]

BlockedMessage(k) == [text |-> "This command has been blocked for safety", pattern |-> k]
TimeoutMessage(ms) == [text |-> "Command timed out", ms |-> ms]

\* Variant: every rejection of execAsync is thrown on to the caller.
execReply_rethrows(outcome, timeout) ==
    IF outcome.kind = "resolve"
    THEN Return([stdout |-> OrElse(outcome.stdout, ""),
                 stderr |-> OrElse(outcome.stderr, ""),
                 exitCode |-> 0])
    ELSE Throw(outcome.message)

\* fs:bash after the safety check: the try / catch around execAsync
execReply(outcome, timeout) ==
    IF outcome.kind = "resolve"
    THEN Return([stdout |-> OrElse(outcome.stdout, ""),
                 stderr |-> OrElse(outcome.stderr, ""),
                 exitCode |-> 0])
    ELSE IF outcome.killed
    THEN Throw(TimeoutMessage(timeout))
    ELSE Return([stdout |-> OrElse(outcome.stdout, ""),
                 stderr |-> OrElse(outcome.stderr, outcome.message),
                 exitCode |-> NumOrElse(outcome.code, 1)])

\* bash.execute after the await: the formatted tool result
bashResult(reply) ==
    IF reply.kind = "throw"
    THEN [error |-> TRUE, message |-> reply.message,
          suggestion |-> "This command may be blocked for safety reasons, or the path may be invalid"]
    ELSE IF reply.value.exitCode # 0
    THEN [success |-> FALSE, exitCode |-> reply.value.exitCode,
          stdout |-> reply.value.stdout, stderr |-> reply.value.stderr,
          message |-> "Command failed with exit code",
          suggestion |-> IF Truthy(reply.value.stderr) THEN "Error output"
                         ELSE "Check the command syntax and try again"]
    ELSE [success |-> TRUE, exitCode |-> 0,
          stdout |-> reply.value.stdout,
          stderr |-> OrElse(reply.value.stderr, Undefined)]

NoBashCall ==
    [pc |-> "idle", command |-> <<>>, timeout |-> <<>>,
     options |-> [cwd |-> Undefined, timeout |-> 0], exec |-> <<>>, reply |-> NoReply]

\* bash.execute up to `await window.api.bash(command, {cwd, timeout})`
BashExecute ==
    \E command \in Commands, cwd \in CwdArgs, timeout \in TimeoutArgs :
        /\ bash.pc = "idle"
        /\ bash' = [pc |-> "ipc", command |-> command, timeout |-> timeout,
                    options |-> [cwd |-> cwd, timeout |-> toolTimeout(timeout)],
                    exec |-> <<>>, reply |-> NoReply]
        /\ result' = Void
        /\ UNCHANGED <<activeQuestionSet, todos, browser, calls, permissions, marketplace, skills>>

\* ipcMain.handle('fs:bash', ...): the safety check, then execAsync
FsBashHandler ==
    /\ bash.pc = "ipc"
    /\ IF blockedBy(bash.command) # 0
       THEN bash' = [bash EXCEPT !.pc = "reply",
                                 !.reply = Throw(BlockedMessage(blockedBy(bash.command)))]
       ELSE \E outcome \in ExecOutcomes :
               bash' = [bash EXCEPT
                          !.pc = "reply",
                          !.exec = <<[command |-> bash.command,
                                      cwd |-> handlerCwd(bash.options),
                                      timeout |-> handlerTimeout(bash.options),
                                      outcome |-> outcome]>>,
                          !.reply = execReply(outcome, handlerTimeout(bash.options))]
    /\ UNCHANGED <<activeQuestionSet, todos, result, browser, calls, permissions, marketplace, skills>>

\* bash.execute from the await on: try { format } catch { error result }
BashReturn ==
    /\ bash.pc = "reply"
    /\ result' = Ret("bash", Undefined, bashResult(bash.reply))
    /\ bash' = [bash EXCEPT !.pc = "idle"]
    /\ UNCHANGED <<activeQuestionSet, todos, browser, calls, permissions, marketplace, skills>>

SHELL_TIMEOUT == 30000

\* ipcMain.handle('shell:execute', ...): execAsync(command, { cwd: cwd ||
\* home, timeout: 30000 }); its rejection is the handler's rejection
shellExecuteReply(outcome) ==
    IF outcome.kind = "resolve"
    THEN Return([stdout |-> outcome.stdout, stderr |-> outcome.stderr])
    ELSE Throw(outcome.message)

ShellExecute ==
    \E command \in Commands, cwd \in CwdArgs, outcome \in ExecOutcomes :
        /\ bash.pc = "idle"
        /\ bash' = [NoBashCall EXCEPT
                      !.command = command,
                      !.exec = <<[command |-> command,
                                  cwd |-> OrElse(cwd, "app.getPath('home')"),
                                  timeout |-> SHELL_TIMEOUT,
                                  outcome |-> outcome]>>,
                      !.reply = shellExecuteReply(outcome)]
        /\ result' = Ret("shell:execute", Undefined, shellExecuteReply(outcome))
        /\ UNCHANGED <<activeQuestionSet, todos, browser, calls, permissions, marketplace, skills>>

----------------------------------------------------------------------------
(* Browser tools *)

BrowserTools ==
    { "browserNavigate", "browserGetContent", "browserClick", "browserType", "browserPress",
      "browserGetLinks", "browserScroll", "browserScreenshot", "browserClose" }

\* the executors that call checkBrowserConfigured before their primitive
CheckedTools == { "browserNavigate" }

\* message: result.message || '<fallback>' of each executor
ErrorFallback ==
    [ browserNavigate |-> "Navigation failed",
      browserGetContent |-> "Failed to get content",
      browserClick |-> "Click failed",
      browserType |-> "Type failed",
      browserPress |-> "Key press failed",
      browserGetLinks |-> "Failed to get links",
      browserScroll |-> "Scroll failed",
      browserScreenshot |-> "Screenshot failed",
      browserClose |-> "Close failed" ]

\* the suggestion of the error-shaped return and of the catch (Undefined: none)
ErrorSuggestion ==
    [ browserNavigate |-> "Check if the URL is valid and try again",
      browserGetContent |-> "Navigate to a page first.",   \* the call without a selector
      browserClick |-> "The element may not exist or may not be clickable. Try a different selector.",
      browserType |-> "The input field may not exist. Try a different selector.",
      browserPress |-> Undefined,
      browserGetLinks |-> "Navigate to a page first",
      browserScroll |-> Undefined,
      browserScreenshot |-> "Navigate to a page first",
      browserClose |-> Undefined ]

CatchSuggestion ==
    [ browserNavigate |-> "The browser may not be available. Try again.",
      browserGetContent |-> "Make sure you have navigated to a page first",
      browserClick |-> "Check if the element exists and is visible",
      browserType |-> "Check if the input field exists and is editable",
      browserPress |-> Undefined,
      browserGetLinks |-> Undefined,
      browserScroll |-> Undefined,
      browserScreenshot |-> Undefined,
      browserClose |-> Undefined ]

\* The settings row: preferredBrowser is unset until the user picks one.
Settings(b) == [preferredBrowser |-> b]
BrowserIds == { "chrome" }

\* Variant: the check reports every settings row as configured.
checkBrowserConfigured_alwaysConfigured(settings) == [configured |-> TRUE, needsSetup |-> FALSE]

\* checkBrowserConfigured, after getSettings returned: !settings?.preferredBrowser
checkBrowserConfigured(settings) ==
    IF settings = Null \/ Falsy(settings.preferredBrowser)
    THEN [configured |-> FALSE, needsSetup |-> TRUE]
    ELSE [configured |-> TRUE, needsSetup |-> FALSE]

NeedsBrowserSetupResult ==
    [error |-> TRUE,
     message |-> "Browser not configured. A dialog has been shown to the user to select their preferred browser.",
     suggestion |-> "Wait for the user to select a browser, then try again.",
     needsBrowserSetup |-> TRUE]

\* What a window.api.browser* primitive can do: return a payload, return an
\* error shape (with or without a message), or reject.
ApiOutcomes ==
    { Return([error |-> FALSE, message |-> Undefined, url |-> "https://x", title |-> "X"]),
      Return([error |-> TRUE, message |-> "No page open", url |-> Undefined, title |-> Undefined]),
      Return([error |-> TRUE, message |-> Undefined, url |-> Undefined, title |-> Undefined]),
      Throw("Error invoking remote method") }

\* the catch block of an executor
catchResult(message, suggestion) ==
    [error |-> TRUE, message |-> message, suggestion |-> suggestion]

\* a browser executor after `await window.api.browser*(...)`
browserToolResult(tool, reply) ==
    IF reply.kind = "throw"
    THEN catchResult(reply.message, CatchSuggestion[tool])
    ELSE IF reply.value.error
    THEN [error |-> TRUE,
          message |-> OrElse(reply.value.message, ErrorFallback[tool]),
          suggestion |-> ErrorSuggestion[tool]]
    ELSE [success |-> TRUE, url |-> reply.value.url, title |-> reply.value.title]

NoBrowserCall ==
    [pc |-> "idle", tool |-> Undefined, atCall |-> Null, read |-> "none",
     raised |-> 0, apiCalls |-> <<>>]

\* the agent runtime invokes a browser executor
BrowserToolStart ==
    \E tool \in BrowserTools :
        /\ browser.call.pc = "idle"
        /\ browser' = [browser EXCEPT !.call =
              [pc |-> IF tool \in CheckedTools THEN "check" ELSE "api",
               tool |-> tool, atCall |-> browser.settings, read |-> "none",
               raised |-> 0, apiCalls |-> <<>>]]
        /\ result' = Void
        /\ UNCHANGED <<activeQuestionSet, todos, bash, calls, permissions, marketplace, skills>>

\* checkBrowserConfigured: getSettings rejects (the executor's catch answers),
\* or returns the row and the executor returns early or goes on
CheckBrowserConfigured ==
    /\ browser.call.pc = "check"
    /\ \/ /\ browser' = [browser EXCEPT !.call.pc = "idle", !.call.read = "reject"]
          /\ result' = Ret(browser.call.tool, Undefined,
                           catchResult("Error invoking remote method", CatchSuggestion[browser.call.tool]))
       \/ LET check == checkBrowserConfigured(browser.settings) IN
          IF ~check.configured
          THEN /\ browser' = [browser EXCEPT !.showSelectionDialog = TRUE,
                                             !.call.pc = "idle",
                                             !.call.read = "return",
                                             !.call.raised = @ + 1]
               /\ result' = Ret(browser.call.tool, Undefined, NeedsBrowserSetupResult)
          ELSE /\ browser' = [browser EXCEPT !.call.pc = "api", !.call.read = "return"]
               /\ result' = result
    /\ UNCHANGED <<activeQuestionSet, todos, bash, calls, permissions, marketplace, skills>>

\* await window.api.browser*(...) and the formatting of its reply
BrowserApi ==
    \E reply \in ApiOutcomes :
        /\ browser.call.pc = "api"
        /\ browser' = [browser EXCEPT !.call.pc = "idle",
                                      !.call.apiCalls = Append(@, browser.call.tool)]
        /\ result' = Ret(browser.call.tool, Undefined, browserToolResult(browser.call.tool, reply))
        /\ UNCHANGED <<activeQuestionSet, todos, bash, calls, permissions, marketplace, skills>>

\* BrowserSelectionDialog.handleSelect: updateSettings, then onOpenChange(false)
SelectBrowser ==
    \E browserId \in BrowserIds :
        /\ browser.showSelectionDialog
        /\ browser' = [browser EXCEPT !.settings = Settings(browserId),
                                      !.showSelectionDialog = FALSE]
        /\ UNCHANGED <<activeQuestionSet, todos, bash, result, calls, permissions, marketplace, skills>>

\* the dialog is closed without a choice: onOpenChange(false)
DismissDialog ==
    /\ browser.showSelectionDialog
    /\ browser' = [browser EXCEPT !.showSelectionDialog = FALSE]
    /\ UNCHANGED <<activeQuestionSet, todos, bash, result, calls, permissions, marketplace, skills>>

----------------------------------------------------------------------------
(* The tool catalog: each executor is `try { ...awaits... } catch { ... }`.  *)
(* An executor in flight has seen the replies of the collaborators it has    *)
(* awaited so far; body says what it does next.                              *)

Slots == {1, 2}

ToolNames ==
    { "listDirectory", "glob", "grep", "readFile", "viewImage", "todoWrite",
      "askQuestion", "bash", "searchSkills", "installSkill" } \cup BrowserTools

Await(api, apiArgs) == [kind |-> "await", api |-> api, args |-> apiArgs]

\* what a collaborator did (env) and what the awaiting executor got (reply)
Outcome(env, reply) == [env |-> env, reply |-> reply]

(* file tools *)

FileEntry(name, isDirectory, size) ==
    [name |-> name, path |-> "/w/" \o name, isDirectory |-> isDirectory, size |-> size]

\* Directory listings / glob matches as the handlers return them (size: <<>>
\* when stat gave nothing).
Listings ==
    { <<>>,
      <<FileEntry("a.txt", FALSE, <<12>>), FileEntry("sub", TRUE, <<96>>)>>,
      <<FileEntry("empty.txt", FALSE, <<0>>), FileEntry("gone", FALSE, <<>>)>> }

\* formatFileSize, for sizes below 1024 bytes: `${bytes} B`
formatFileSize(bytes) == ToString(bytes) \o " B"

\* results.map((item) => ({ name, path, type, size }))
entryOf(item) ==
    [name |-> item.name,
     path |-> item.path,
     type |-> IF item.isDirectory THEN "folder" ELSE "file",
     size |-> IF NumOrElse(item.size, 0) # 0 THEN formatFileSize(item.size[1]) ELSE Undefined]

entriesOf(results) == [i \in 1..Len(results) |-> entryOf(results[i])]

(* fs:grep *)

GREP_TOOL_MAX_RESULTS == 50
GREP_HANDLER_MAX_RESULTS == 100
GREP_CONTENT_LENGTH == 200

WhiteSpace == {" ", "\t", "\n", "\r"}

\* a line of n characters c
Chars(n, c) == [i \in 1..n |-> c]

\* a file under the searched path as readFile gives it, split into lines
GrepFile(path, lines) == [path |-> path, readable |-> TRUE, lines |-> lines]
\* a file readFile throws on (binary, permissions)
UnreadableFile(path) == [path |-> path, readable |-> FALSE, lines |-> <<>>]

\* what stat answers for the searched path ("missing": null) and the files
\* fast-glob lists under it, in its order (a file: the path itself)
GrepTree(kind, files) == [stat |-> kind, files |-> files]

FileA == GrepFile("/w/a.txt", << <<"x">>, <<"y">>, <<" ", "a", "X", "b", " ">>, <<"x">> >>)
FileB == GrepFile("/w/b.txt", << Chars(GREP_CONTENT_LENGTH + 1, "x"), <<"z", "x">>,
                                 <<"f", "(", "x", ")", "[">> >>)
FileLong == GrepFile("/w/long.txt", [i \in 1..(GREP_TOOL_MAX_RESULTS + 2) |-> <<"x">>])

GrepTrees ==
    { GrepTree("missing", <<>>),
      GrepTree("dir", <<>>),
      GrepTree("file", <<FileA>>),
      GrepTree("dir", <<FileA, UnreadableFile("/w/a.bin"), FileB>>),
      GrepTree("dir", <<GrepFile("/w/none.txt", << <<"y">> >>), FileLong, FileB>>) }

\* new RegExp(pattern, 'gi'): the pattern is parsed, and a pattern that
\* does not parse is a SyntaxError (ok FALSE). The syntax covered: literals,
\* . ^ $ | ( ) (?: ) [ ] [^ ] \ escapes and the quantifiers * + ? with their
\* lazy forms; ranges in classes and counted repetition are left out.
Parsed(re, next) == [ok |-> TRUE, re |-> re, next |-> next]
SyntaxError == [ok |-> FALSE, re |-> Cat(<<>>), next |-> 0]

Quantifiers == {"*", "+", "?"}
Assertions == {"bol", "eol", "wb"}

\* \c: a character class escape, a word boundary, or the character itself
escapeAtom(c) ==
    CASE c = "s" -> Space
      [] c = "b" -> WordBoundary
      [] c = "d" -> Chr(Digits)
      [] c = "w" -> Chr(Range(LowerLetters) \cup Digits \cup {"_"})
      [] OTHER -> Chr({Lower(c)})

\* the index of the ] that closes the class opened before position i, 0
\* when there is none
RECURSIVE classEnd(_, _)
classEnd(p, i) ==
    IF i > Len(p) THEN 0
    ELSE IF p[i] = "\\" THEN classEnd(p, i + 2)
    ELSE IF p[i] = "]" THEN i
    ELSE classEnd(p, i + 1)

classAtom(p, i, j) ==
    LET negated == i + 1 < j /\ p[i + 1] = "^"
        from == IF negated THEN i + 2 ELSE i + 1
        cs == { Lower(p[k]) : k \in { h \in from..(j - 1) : p[h] # "\\" } }
    IN  Parsed([t |-> IF negated THEN "nchars" ELSE "chars", cs |-> cs], j + 1)

RECURSIVE parseAlt(_, _, _), parseSeq(_, _, _, _), parseAtom(_, _)

\* an atom followed by its quantifier, if any
quantified(p, a) ==
    IF a.next <= Len(p) /\ p[a.next] \in Quantifiers
    THEN IF a.re.t \in Assertions THEN SyntaxError
         ELSE LET lazy == a.next + 1 <= Len(p) /\ p[a.next + 1] = "?"
                  next == IF lazy THEN a.next + 2 ELSE a.next + 1
              IN  CASE p[a.next] = "*" -> Parsed(Star(a.re), next)
                    [] p[a.next] = "+" -> Parsed(Plus(a.re), next)
                    [] p[a.next] = "?" -> Parsed(Optional(a.re), next)
    ELSE a

parseAtom(p, i) ==
    CASE p[i] = "(" ->
            LET from == IF i + 2 <= Len(p) /\ p[i + 1] = "?" /\ p[i + 2] = ":" THEN i + 3 ELSE i + 1
                g == parseAlt(p, from, TRUE)
            IN  IF g.ok /\ g.next <= Len(p) /\ p[g.next] = ")" THEN Parsed(g.re, g.next + 1)
                ELSE SyntaxError
      [] p[i] = "[" ->
            LET j == classEnd(p, i + 1)
            IN  IF j = 0 THEN SyntaxError ELSE classAtom(p, i, j)
      [] p[i] = "\\" -> IF i = Len(p) THEN SyntaxError ELSE Parsed(escapeAtom(p[i + 1]), i + 2)
      [] p[i] \in Quantifiers -> SyntaxError
      [] p[i] = "." -> Parsed(AnyChar, i + 1)
      [] p[i] = "^" -> Parsed([t |-> "bol"], i + 1)
      [] p[i] = "$" -> Parsed([t |-> "eol"], i + 1)
      [] OTHER -> Parsed(Chr({Lower(p[i])}), i + 1)

parseSeq(p, i, acc, inGroup) ==
    IF i > Len(p) THEN Parsed(Cat(acc), i)
    ELSE IF p[i] = "|" THEN Parsed(Cat(acc), i)
    ELSE IF p[i] = ")" THEN (IF inGroup THEN Parsed(Cat(acc), i) ELSE SyntaxError)
    ELSE LET a == parseAtom(p, i)
         IN  IF ~a.ok THEN SyntaxError
             ELSE LET q == quantified(p, a)
                  IN  IF ~q.ok THEN SyntaxError
                      ELSE parseSeq(p, q.next, Append(acc, q.re), inGroup)

parseAlt(p, i, inGroup) ==
    LET first == parseSeq(p, i, <<>>, inGroup)
    IN  IF ~first.ok THEN SyntaxError
        ELSE IF first.next <= Len(p) /\ p[first.next] = "|"
        THEN LET rest == parseAlt(p, first.next + 1, inGroup)
             IN  IF ~rest.ok THEN SyntaxError
                 ELSE Parsed(Alt(<<first.re, rest.re>>), rest.next)
        ELSE first

RegExp(pattern) ==
    LET r == parseAlt(pattern, 1, FALSE)
    IN  IF r.ok /\ r.next = Len(pattern) + 1 THEN r ELSE SyntaxError

\* the characters of /[.*+?^${}()|[\]\\]/
RegexMeta == {".", "*", "+", "?", "^", "$", "{", "}", "(", ")", "|", "[", "]", "\\"}

\* Variant: the fallback leaves the pattern as it came.
escapeChar_asIs(c) == <<c>>

\* '\\$&' on one character of the pattern
escapeChar(c) == IF c \in RegexMeta THEN <<"\\", c>> ELSE <<c>>

\* pattern.replace(/[.*+?^${}()|[\]\\]/g, '\\$&')
RECURSIVE escapeRegExp(_)
escapeRegExp(pattern) ==
    IF pattern = <<>> THEN <<>> ELSE escapeChar(pattern[1]) \o escapeRegExp(Tail(pattern))

\* try { regex = new RegExp(pattern, 'gi') } catch { regex = new
\* RegExp(escaped, 'gi') }: ok FALSE when the second RegExp throws as well
grepRegex(pattern) ==
    LET r == RegExp(pattern)
    IN  IF r.ok THEN r ELSE RegExp(escapeRegExp(pattern))

\* line.match(regex)[0]: the leftmost match, and at that start the longest
\* (what greedy quantifiers give when no alternative is a prefix of another)
firstMatchOf(regex, line) ==
    LET starts == { p \in 1..(Len(line) + 1) : Ends(regex, line, {p}) # {} }
        start == CHOOSE p \in starts : \A q \in starts : p <= q
        ends == Ends(regex, line, {start})
        end == CHOOSE e \in ends : \A f \in ends : f <= e
    IN  SubSeq(line, start, end - 1)

RECURSIVE trimStart(_), trimEnd(_)
trimStart(s) == IF s # <<>> /\ s[1] \in WhiteSpace THEN trimStart(Tail(s)) ELSE s
trimEnd(s) == IF s # <<>> /\ s[Len(s)] \in WhiteSpace THEN trimEnd(SubSeq(s, 1, Len(s) - 1)) ELSE s
trim(s) == trimEnd(trimStart(s))

\* s.substring(0, n)
substring(s, n) == SubSeq(s, 1, Min(n, Len(s)))

GrepMatch(file, line, content, match) ==
    [file |-> file, line |-> line, content |-> content, match |-> match]

\* Variant: the loops stop one match late.
capReached_late(results, maxResults) == Len(results) > maxResults

\* if (results.length >= maxResults) break
capReached(results, maxResults) == Len(results) >= maxResults

\* for (let i = 0; i < lines.length; i++) { ... }: i is the 1-based line
RECURSIVE scanLines(_, _, _, _, _)
scanLines(file, i, regex, maxResults, results) ==
    IF i > Len(file.lines) \/ capReached(results, maxResults) THEN results
    ELSE scanLines(file, i + 1, regex, maxResults,
            IF Test(regex, file.lines[i])
            THEN Append(results,
                    GrepMatch(file.path, i, substring(trim(file.lines[i]), GREP_CONTENT_LENGTH),
                              firstMatchOf(regex, file.lines[i])))
            ELSE results)

\* for (const filePath of filesToSearch) { ... }: a file that cannot be read
\* is skipped
RECURSIVE scanFiles(_, _, _, _, _)
scanFiles(files, k, regex, maxResults, results) ==
    IF k > Len(files) \/ capReached(results, maxResults) THEN results
    ELSE scanFiles(files, k + 1, regex, maxResults,
            IF files[k].readable THEN scanLines(files[k], 1, regex, maxResults, results)
            ELSE results)

\* ipcMain.handle('fs:grep', ...); options.maxResults <<>>: no options, or
\* options without maxResults
fsGrepHandler(tree, pattern, searchPath, options) ==
    LET maxResults == NumOrElse(options.maxResults, GREP_HANDLER_MAX_RESULTS)
        regex == grepRegex(pattern)
    IN  IF tree.stat = "missing" THEN Throw("Path not found: " \o searchPath)
        ELSE IF ~regex.ok THEN Throw("Invalid regular expression")
        ELSE Return(scanFiles(tree.files, 1, regex.re, maxResults, <<>>))

\* Variant: the tool passes the caller's maxResults on as it came.
grepOptions_passesThrough(maxResults) == [maxResults |-> maxResults]

\* { maxResults: maxResults || 50 }
grepOptions(maxResults) == [maxResults |-> <<NumOrElse(maxResults, GREP_TOOL_MAX_RESULTS)>>]

(* fs:readFileBase64 *)

\* A text that is searched for a fragment is the sequence of its fragments.
\* text.includes(fragment)
includes(text, fragment) == \E i \in DOMAIN text : text[i] = fragment

HandlerMissingText == "No handler registered"

\* ipcRenderer.invoke when no handler is registered for the channel
NoHandlerMessage ==
    <<"Error invoking remote method 'fs:readFileBase64': Error: ", HandlerMissingText,
      " for 'fs:readFileBase64'">>

\* the image paths the agent asks for: directory and name, then extension
ImagePaths ==
    { <<"/w/a", "png">>, <<"/w/", "No handler registered", "png">>, <<"/w/a", "dat">> }

\* mimeTypes[ext] || 'application/octet-stream'
mimeTypeOf(ext) ==
    CASE ext = "png" -> "image/png"
      [] ext \in {"jpg", "jpeg"} -> "image/jpeg"
      [] ext = "gif" -> "image/gif"
      [] ext = "webp" -> "image/webp"
      [] ext = "svg" -> "image/svg+xml"
      [] ext = "bmp" -> "image/bmp"
      [] ext = "ico" -> "image/x-icon"
      [] ext = "pdf" -> "application/pdf"
      [] OTHER -> "application/octet-stream"

\* ipcMain.handle('fs:readFileBase64', ...): readFile rejects ("enoent") or
\* gives the bytes
fsReadFileBase64Handler(file, path) ==
    IF file = "enoent"
    THEN Throw(<<"ENOENT: no such file or directory, open '">> \o path \o <<"'">>)
    ELSE LET mimeType == mimeTypeOf(path[Len(path)])
         IN  Return([base64 |-> "AAAA", mimeType |-> mimeType,
                     dataUrl |-> "data:" \o mimeType \o ";base64," \o "AAAA"])

\* window.api.readFileBase64(path): the handler's answer as ipcRenderer.invoke
\* delivers it, or its rejection when no handler is registered
invokeReadFileBase64(wiring, path) ==
    IF wiring = "nohandler" THEN Throw(NoHandlerMessage)
    ELSE LET reply == fsReadFileBase64Handler(wiring, path)
         IN  IF reply.kind = "throw"
             THEN Throw(<<"Error invoking remote method 'fs:readFileBase64': Error: ">> \o reply.message)
             ELSE reply

isHandlerMissing(errorMessage) == includes(errorMessage, HandlerMissingText)

(* skill table *)

\* window.api.createSkill(data), when the collaborator carries it out: the
\* table gains a row
createSkill(rows, data) == Append(rows, [name |-> data.name, sourceUrl |-> data.sourceUrl])

(* skill registry *)

RegistrySkill(id, name) == [id |-> id, name |-> name, description |-> "d"]

\* fetch(url) in skillregistry:search: it rejects (network failure), answers
\* with a non-ok status, or answers with a list of skills
FetchOutcomes ==
    { [kind |-> "reject"],
      [kind |-> "status", ok |-> FALSE, skills |-> <<>>],
      [kind |-> "status", ok |-> TRUE, skills |-> <<>>],
      [kind |-> "status", ok |-> TRUE, skills |-> <<RegistrySkill("slack", "Slack")>>] }

\* Variant: the handler lets a failed fetch reject the IPC call.
skillRegistrySearchHandler_rethrows(fetched) ==
    IF fetched.kind = "reject" THEN Throw("fetch failed")
    ELSE IF ~fetched.ok THEN Return(<<>>)
    ELSE Return(fetched.skills)

\* ipcMain.handle('skillregistry:search'): try { fetch ... } catch { return [] }
skillRegistrySearchHandler(fetched) ==
    IF fetched.kind = "reject" THEN Return(<<>>)
    ELSE IF ~fetched.ok THEN Return(<<>>)
    ELSE Return(fetched.skills)

\* window.api.skillRegistrySearch: the handler's answer, or the IPC call
\* itself failing
SkillSearchOutcomes ==
    { Outcome(f, skillRegistrySearchHandler(f)) : f \in FetchOutcomes }
    \cup { Outcome([kind |-> "ipc"], Throw("Error invoking remote method 'skillregistry:search'")) }

(* what each window.api call can answer *)

BashOutcomes(apiArgs) ==
    IF blockedBy(apiArgs.command) # 0
    THEN { Outcome("blocked", Throw(BlockedMessage(blockedBy(apiArgs.command)))) }
    ELSE { Outcome(o, execReply(o, handlerTimeout(apiArgs.options))) : o \in ExecOutcomes }

ReturnOrThrow(values, faults) ==
    { Outcome("ok", Return(v)) : v \in values } \cup { Outcome("fault", Throw(m)) : m \in faults }

Outcomes(api, apiArgs) ==
    CASE api = "readDirectory" -> ReturnOrThrow(Listings, {"ENOENT: no such file or directory"})
      [] api = "glob" -> ReturnOrThrow(Listings, {"Error invoking remote method 'fs:glob'"})
      [] api = "grep" ->
            { Outcome(tree, fsGrepHandler(tree, apiArgs.pattern, apiArgs.path, apiArgs.options)) :
                tree \in GrepTrees }
      [] api = "readFile" -> ReturnOrThrow({"", "text"}, {"ENOENT: no such file or directory"})
      [] api = "readFileBase64" ->
            { Outcome(wiring, invokeReadFileBase64(wiring, apiArgs.path)) :
                wiring \in {"ok", "enoent", "nohandler"} }
      [] api = "setTodos" -> { Outcome("ok", Return(Undefined)) }
      [] api = "setQuestions" -> { Outcome("ok", Return(Undefined)) }
      [] api = "setShowSelectionDialog" -> { Outcome("ok", Return(Undefined)) }
      [] api = "bash" -> BashOutcomes(apiArgs)
      [] api = "getSettings" ->
            { Outcome("ok", Return(browser.settings)),
              Outcome("fault", Throw("Error invoking remote method 'settings:get'")) }
      [] api \in BrowserTools -> { Outcome("ok", r) : r \in ApiOutcomes }
      [] api = "skillRegistrySearch" -> SkillSearchOutcomes
      [] api = "getSkills" ->
            ReturnOrThrow({ skills }, {"Error invoking remote method 'db:skills:list'"})
      [] api = "skillRegistryGetContent" ->
            ReturnOrThrow({ "", "# Slack skill" }, {"Error invoking remote method 'skillregistry:getContent'"})
      [] api = "createSkill" ->
            ReturnOrThrow({ Undefined }, {"Unique constraint failed"})

(* the executors *)

Replies(R) == [i \in 1..Len(R) |-> R[i].reply]

skillOf(s) ==
    [id |-> s.id, name |-> s.name, description |-> s.description,
     url |-> "https://skillregistry.io/skills/" \o s.id]

\* the suggestion of each executor's catch block (Undefined: none)
CatchSuggestionOf(name) ==
    CASE name = "listDirectory" -> "Check if the path exists and you have permission to access it"
      [] name = "glob" -> "Check if the search path exists and the pattern is valid"
      [] name = "grep" -> "Check if the path exists and is readable"
      [] name = "readFile" -> "Check if the file exists and you have permission to read it"
      [] name = "bash" -> "This command may be blocked for safety reasons, or the path may be invalid"
      [] name = "searchSkills" -> "Network error. You can try the browser instead."
      [] name = "installSkill" -> "Try searching for the skill again or use the browser instead."
      [] name \in BrowserTools -> CatchSuggestion[name]
      [] OTHER -> Undefined

\* the value an executor's catch block returns for the fault it caught
catchValue(name, message) ==
    IF name = "viewImage"
    THEN [error |-> TRUE,
          message |-> message,
          suggestion |-> IF isHandlerMissing(message)
                         THEN "Do NOT retry this tool - it will fail until the app is restarted."
                         ELSE "You may retry once if the path was incorrect.",
          requiresRestart |-> isHandlerMissing(message),
          retryable |-> ~isHandlerMissing(message)]
    ELSE catchResult(message, CatchSuggestionOf(name))

\* Variant: the catch block throws the fault on.
caught_rethrows(name, step) == step

\* try { body } catch (error) { return { error: true, ... } }
caught(name, step) ==
    IF step.kind = "throw" THEN Return(catchValue(name, step.message)) ELSE step

\* the try block of each executor, given the replies r it has awaited so far
tryBlock(name, args, now, r) ==
    LET k == Len(r) IN
    CASE name = "listDirectory" ->
            IF k = 0 THEN Await("readDirectory", [path |-> args.path])
            ELSE Return(entriesOf(r[1].value))
      [] name = "glob" ->
            IF k = 0 THEN Await("glob", [pattern |-> args.pattern, path |-> args.path])
            ELSE IF Len(r[1].value) = 0
            THEN Return([files |-> <<>>, message |-> "No files found matching pattern"])
            ELSE Return(entriesOf(r[1].value))
      [] name = "grep" ->
            IF k = 0
            THEN Await("grep", [pattern |-> args.pattern, path |-> args.path,
                                options |-> grepOptions(args.maxResults)])
            ELSE IF Len(r[1].value) = 0
            THEN Return([matches |-> <<>>, message |-> "No matches found"])
            ELSE Return([matches |-> r[1].value, count |-> Len(r[1].value), message |-> "Found matches"])
      [] name = "readFile" ->
            IF k = 0 THEN Await("readFile", [path |-> args.path])
            ELSE Return([path |-> args.path, content |-> r[1].value])
      [] name = "viewImage" ->
            IF k = 0 THEN Await("readFileBase64", [path |-> args.path])
            ELSE Return([path |-> args.path, mimeType |-> r[1].value.mimeType, type |-> "image",
                         image |-> r[1].value.dataUrl,
                         message |-> "Image loaded successfully. The image is now visible to you."])
      [] name = "todoWrite" ->
            IF k = 0 THEN Await("setTodos", mappedTodos(args.todos, now))
            ELSE Return(todoWriteResult(args.todos, mappedTodos(args.todos, now)))
      [] name = "askQuestion" ->
            IF k = 0 THEN Await("setQuestions", args.questions)
            ELSE Return([success |-> TRUE,
                         message |-> "Questions displayed to user. Waiting for their response...",
                         questionSetId |-> questionSetId(now),
                         questionCount |-> Len(args.questions),
                         waitingForResponse |-> TRUE])
      [] name = "bash" ->
            IF k = 0
            THEN Await("bash", [command |-> args.command,
                                options |-> [cwd |-> args.cwd, timeout |-> toolTimeout(args.timeout)]])
            ELSE Return(bashResult(r[1]))
      [] name = "browserNavigate" ->
            IF k = 0 THEN Await("getSettings", [none |-> TRUE])
            ELSE IF ~checkBrowserConfigured(r[1].value).configured
            THEN IF k = 1 THEN Await("setShowSelectionDialog", TRUE)
                 ELSE Return(NeedsBrowserSetupResult)
            ELSE IF k = 1 THEN Await("browserNavigate", args)
            ELSE Return(browserToolResult(name, r[2]))
      [] name \in BrowserTools \ {"browserNavigate"} ->
            IF k = 0 THEN Await(name, args)
            ELSE Return(browserToolResult(name, r[1]))
      [] name = "searchSkills" ->
            IF k = 0 THEN Await("skillRegistrySearch", [query |-> args.query])
            ELSE IF Len(r[1].value) = 0
            THEN Return([success |-> TRUE, skills |-> <<>>, message |-> "No skills found"])
            ELSE Return([success |-> TRUE,
                         skills |-> [i \in 1..Len(r[1].value) |-> skillOf(r[1].value[i])],
                         count |-> Len(r[1].value),
                         message |-> "Found skill(s)"])
      [] name = "installSkill" ->
            IF k = 0 THEN Await("getSkills", [none |-> TRUE])
            ELSE IF \E i \in 1..Len(r[1].value) : r[1].value[i].name = args.name
            THEN Return([success |-> TRUE, alreadyInstalled |-> TRUE,
                         message |-> "Skill is already installed. You can use it now."])
            ELSE IF k = 1 THEN Await("skillRegistryGetContent", [skillId |-> args.skillId])
            ELSE IF Falsy(r[2].value)
            THEN Return([error |-> TRUE, message |-> "Failed to fetch skill content",
                         suggestion |-> "The skill may have been removed. Try searching again."])
            ELSE IF k = 2
            THEN Await("createSkill", [name |-> args.name, description |-> args.description,
                                       content |-> r[2].value,
                                       sourceUrl |-> "https://skillregistry.io/skills/" \o args.skillId])
            ELSE Return([success |-> TRUE, installed |-> TRUE, name |-> args.name,
                         message |-> "Successfully installed skill",
                         skillContent |-> r[2].value])   \* a content of at most 500 characters

\* execute: an await that rejected throws inside the try block
execute(name, args, now, r) ==
    IF Len(r) > 0 /\ r[Len(r)].kind = "throw"
    THEN caught(name, r[Len(r)])
    ELSE caught(name, tryBlock(name, args, now, r))

(* the agent runtime: schema validation, then the executor *)

MIN_QUESTIONS == 1
MAX_QUESTIONS == 5
MIN_OPTIONS == 2
MAX_OPTIONS == 5

Options(n) == [i \in 1..n |-> Opt("o" \o ToString(i), "Option")]
Repeat(x, n) == [i \in 1..n |-> x]

\* Variant: the options array is accepted from one option on.
validQuestions_oneOption(questions) ==
    /\ Len(questions) >= MIN_QUESTIONS
    /\ Len(questions) <= MAX_QUESTIONS
    /\ \A i \in 1..Len(questions) :
          /\ Len(questions[i].options) >= 1
          /\ Len(questions[i].options) <= MAX_OPTIONS

\* askQuestion.parameters: z.array(... options: z.array(...).min(2).max(5) ...).min(1).max(5)
validQuestions(questions) ==
    /\ Len(questions) >= MIN_QUESTIONS
    /\ Len(questions) <= MAX_QUESTIONS
    /\ \A i \in 1..Len(questions) :
          /\ Len(questions[i].options) >= MIN_OPTIONS
          /\ Len(questions[i].options) <= MAX_OPTIONS

\* parameters.safeParse(args).success, for arguments of the right types
Valid(name, args) ==
    IF name = "askQuestion" THEN validQuestions(args.questions) ELSE TRUE

\* The argument lists the agent sends to askQuestion: within, at and beyond
\* the bounds of the schema.
AskQuestionArgs ==
    { <<>>,
      <<Q("a", "Proceed?", Options(2), TRUE)>>,
      <<Q("a", "Proceed?", Options(1), TRUE)>>,
      <<Q("a", "Proceed?", Options(2), TRUE), Q("b", "Which?", Options(6), FALSE)>>,
      <<Q("a", "Proceed?", Options(5), TRUE), Q("", "Which?", Options(2), FALSE)>>,
      Repeat(Q("a", "Proceed?", Options(5), TRUE), 5),
      Repeat(Q("a", "Proceed?", Options(2), TRUE), 6) }

TodoWriteArgs ==
    { <<>>,
      <<Todo("a", "Fix bug", "in_progress")>>,
      <<Todo(Undefined, "Scan repo", "pending"), Todo("b", "Ship", "completed")>> }

\* the maxResults the agent sends to grep: none, zero, below and above the
\* tool's default
GrepMaxResults == { <<>>, <<0>>, <<1>>, <<2>>, <<GREP_TOOL_MAX_RESULTS + 1>> }

\* the patterns the agent sends to grep: plain text, a regular expression,
\* and text that is not one (an unterminated group, an unterminated class,
\* a quantifier with nothing to repeat, a trailing backslash)
GrepPatterns ==
    { <<"x">>, <<"Z", "x">>, <<"a", ".", "b">>,
      <<"(", "x">>, <<"[">>, <<"*", "x">>, <<"x", "\\">> }

GrepArgs(name) ==
    { [pattern |-> pt, path |-> "/w", maxResults |-> m] : pt \in GrepPatterns, m \in GrepMaxResults }

ToolArgs(name) ==
    CASE name = "listDirectory" -> { [path |-> "/w"] }
      [] name = "glob" -> { [pattern |-> "*.txt", path |-> Undefined] }
      [] name = "grep" -> { [pattern |-> pt, path |-> "/w", maxResults |-> m] :
                               pt \in { <<"x">>, <<"(", "x">> }, m \in { <<>>, <<2>> } }
      [] name = "readFile" -> { [path |-> "/w/a.txt"] }
      [] name = "viewImage" -> { [path |-> pth] : pth \in ImagePaths }
      [] name = "todoWrite" -> { [todos |-> t] : t \in TodoWriteArgs }
      [] name = "askQuestion" -> { [questions |-> q] : q \in AskQuestionArgs }
      [] name = "bash" -> { [command |-> c, cwd |-> Undefined, timeout |-> <<>>] : c \in { CmdLs, CmdRmRf } }
      [] name \in BrowserTools -> { [target |-> "https://x"] }
      [] name = "searchSkills" -> { [query |-> "slack"] }
      [] name = "installSkill" -> { [skillId |-> "slack", name |-> "Slack", description |-> "d"] }

SchemaViolation == [kind |-> "invalid"]

\* the agent runtime validates the arguments against the tool's schema and
\* runs the executor only when they pass
dispatch(name, args) == IF Valid(name, args) THEN "execute" ELSE "reject"

NoToolCall ==
    [pc |-> "idle", name |-> Undefined, args |-> <<>>, now |-> 0, awaited |-> <<>>, outcome |-> NoReply]

\* the runtime receives a tool call: arguments that fail the schema are
\* answered with a schema violation, the others start the executor
ToolInvokeWith(names, slots, Args(_)) ==
    \E s \in slots, name \in names, now \in Times :
        \E args \in Args(name) :
            /\ calls[s].pc = "idle"
            /\ calls' = [calls EXCEPT ![s] =
                  IF dispatch(name, args) = "execute"
                  THEN [pc |-> "run", name |-> name, args |-> args, now |-> now,
                        awaited |-> <<>>, outcome |-> NoReply]
                  ELSE [pc |-> "idle", name |-> name, args |-> args, now |-> now,
                        awaited |-> <<>>, outcome |-> SchemaViolation]]
            /\ UNCHANGED <<activeQuestionSet, todos, bash, browser, result, permissions, marketplace, skills>>

\* an executor in flight goes on: its next collaborator answers (a store
\* call takes effect), or it returns
ToolStepOf(slots) ==
    \E s \in slots :
        /\ calls[s].pc = "run"
        /\ LET c == calls[s]
               step == execute(c.name, c.args, c.now, Replies(c.awaited))
           IN  IF step.kind = "await"
               THEN /\ \E o \in Outcomes(step.api, step.args) :
                          /\ calls' = [calls EXCEPT ![s].awaited =
                                         Append(@, [api |-> step.api, env |-> o.env, reply |-> o.reply])]
                          /\ skills' = IF step.api = "createSkill" /\ o.reply.kind = "return"
                                       THEN createSkill(skills, step.args)
                                       ELSE skills
                    /\ todos' = IF step.api = "setTodos" THEN setTodos(todos, step.args) ELSE todos
                    /\ activeQuestionSet' =
                          IF step.api = "setQuestions" THEN setQuestions(step.args, c.now)
                          ELSE activeQuestionSet
                    /\ browser' =
                          IF step.api = "setShowSelectionDialog"
                          THEN [browser EXCEPT !.showSelectionDialog = TRUE]
                          ELSE browser
               ELSE /\ calls' = [calls EXCEPT ![s].pc = "idle", ![s].outcome = step]
                    /\ UNCHANGED <<activeQuestionSet, todos, browser, permissions, marketplace, skills>>
        /\ UNCHANGED <<bash, result, permissions, marketplace>>

ToolInvokeOf(names, slots) == ToolInvokeWith(names, slots, ToolArgs)

ToolInvoke == ToolInvokeOf(ToolNames, {1})
ToolStep == ToolStepOf({1})

----------------------------------------------------------------------------
(* Permission handlers *)

PermissionPaths == { "/w", "/w/notes" }
PermissionOperations == { "read", "write" }
PersistedScopes == { "always" }

permissionKey(path, operation) == path \o ":" \o operation

\* a row of the permission table, unique on (path, operation)
PermissionRow(path, operation, scope) == [path |-> path, operation |-> operation, scope |-> scope]

\* prisma.permission.findUnique({ where: { path_operation } }): the row, or null
findUnique(rows, path, operation) ==
    IF \E r \in rows : r.path = path /\ r.operation = operation
    THEN CHOOSE r \in rows : r.path = path /\ r.operation = operation
    ELSE Null

\* prisma.permission.upsert: the scope of the row is set, the row created when missing
upsert(rows, path, operation, scope) ==
    { r \in rows : ~(r.path = path /\ r.operation = operation) }
        \cup { PermissionRow(path, operation, scope) }

\* prisma.permission.delete, when it succeeds
deleteRow(rows, path, operation) ==
    { r \in rows : ~(r.path = path /\ r.operation = operation) }

\* What a call to the storage collaborator does: it is carried out, or it
\* rejects with a fault of its own (database locked, read-only, closed).
StorageOutcomes == { "ok", "fault" }

StorageFault == Throw("Error invoking remote method: database is not available")

\* Variant: the persisted grant is looked up before the session grants.
permissionsCheck_persistedFirst(perms, path, operation, storage) ==
    IF storage = "fault" THEN StorageFault
    ELSE IF findUnique(perms.persisted, path, operation) # Null
    THEN Return(findUnique(perms.persisted, path, operation))
    ELSE IF permissionKey(path, operation) \in perms.session
    THEN Return(PermissionRow(path, operation, "session"))
    ELSE Return(Null)

\* ipcMain.handle('permissions:check'): what the handler answers
permissionsCheck(perms, path, operation, storage) ==
    IF permissionKey(path, operation) \in perms.session
    THEN Return(PermissionRow(path, operation, "session"))
    ELSE IF storage = "fault" THEN StorageFault
    ELSE Return(findUnique(perms.persisted, path, operation))

\* ipcMain.handle('permissions:grant'): the new grants
permissionsGrant(perms, path, operation, scope, storage) ==
    IF scope = "session"
    THEN [perms EXCEPT !.session = @ \cup { permissionKey(path, operation) }]
    ELSE IF storage = "fault" THEN perms
    ELSE [perms EXCEPT !.persisted = upsert(@, path, operation, scope)]

\* Variant: revoke removes the persisted row and leaves the session entry.
permissionsRevoke_keepsSession(perms, path, operation, storage) ==
    [perms EXCEPT !.persisted = IF storage = "fault" THEN @ ELSE deleteRow(@, path, operation)]

\* ipcMain.handle('permissions:revoke'): sessionPermissions.delete(key), then
\* prisma.permission.delete(...).catch(() => {}): a rejected delete (no such
\* row, or a fault of the storage) is ignored
permissionsRevoke(perms, path, operation, storage) ==
    [perms EXCEPT !.session = @ \ { permissionKey(path, operation) },
                  !.persisted = IF storage = "fault" THEN @ ELSE deleteRow(@, path, operation)]

PermissionsCheckOn(Paths, Operations) ==
    \E path \in Paths, operation \in Operations, storage \in StorageOutcomes :
        /\ result' = Ret("permissions:check", [path |-> path, operation |-> operation],
                         permissionsCheck(permissions, path, operation, storage))
        /\ UNCHANGED <<activeQuestionSet, todos, bash, browser, calls, permissions, marketplace, skills>>

PermissionsGrantOn(Paths, Operations) ==
    \E path \in Paths, operation \in Operations,
       scope \in {"session"} \cup PersistedScopes, storage \in StorageOutcomes :
        /\ permissions' = permissionsGrant(permissions, path, operation, scope, storage)
        /\ result' = Ret("permissions:grant", [path |-> path, operation |-> operation, scope |-> scope],
                         IF scope # "session" /\ storage = "fault" THEN StorageFault
                         ELSE Return(PermissionRow(path, operation, scope)))
        /\ UNCHANGED <<activeQuestionSet, todos, bash, browser, calls, marketplace, skills>>

PermissionsRevokeOn(Paths, Operations) ==
    \E path \in Paths, operation \in Operations, storage \in StorageOutcomes :
        /\ permissions' = permissionsRevoke(permissions, path, operation, storage)
        /\ result' = Ret("permissions:revoke", [path |-> path, operation |-> operation],
                         Return(Undefined))
        /\ UNCHANGED <<activeQuestionSet, todos, bash, browser, calls, marketplace, skills>>

PermissionsCheck == PermissionsCheckOn(PermissionPaths, PermissionOperations)
PermissionsGrant == PermissionsGrantOn(PermissionPaths, PermissionOperations)
PermissionsRevoke == PermissionsRevokeOn(PermissionPaths, PermissionOperations)

PermissionsClearSession ==
    /\ permissions' = [permissions EXCEPT !.session = {}]
    /\ result' = Ret("permissions:clearSession", Undefined, Return(Undefined))
    /\ UNCHANGED <<activeQuestionSet, todos, bash, browser, calls, marketplace, skills>>

\* Paths and operations as any caller of the channel can send them: the
\* handlers take both as unchecked strings.
AnyPaths == { "/w", "/w:read" }
AnyOperations == { "write", "read:write" }

CheckAny == PermissionsCheckOn(AnyPaths, AnyOperations)
GrantAny == PermissionsGrantOn(AnyPaths, AnyOperations)
RevokeAny == PermissionsRevokeOn(AnyPaths, AnyOperations)

----------------------------------------------------------------------------
(* QuestionSlider: the handlers of the question UI *)

\* what the user types in the custom answer box
CustomInputs == { <<>>, <<" ">>, <<"t">>, <<" ", "t", " ">> }

\* the string of a sequence of characters
RECURSIVE Text(_)
Text(chars) == IF chars = <<>> THEN "" ELSE chars[1] \o Text(Tail(chars))

\* if (!activeQuestionSet || activeQuestionSet.submitted) return null
sliderShown(aqs) ==
    IF aqs = Null THEN FALSE ELSE ~aqs.submitted

currentQuestion(aqs) == aqs.questions[aqs.currentIndex + 1]
isFirstQuestion(aqs) == aqs.currentIndex = 0
isLastQuestion(aqs) == aqs.currentIndex = Len(aqs.questions) - 1

\* Variant: the Next / Submit button is never disabled.
canProceed_always(aqs) == TRUE

\* canProceed = !!(currentQuestion.selectedOptionId || currentQuestion.customAnswer)
canProceed(aqs) ==
    Truthy(OrElse(currentQuestion(aqs).selectedOptionId, currentQuestion(aqs).customAnswer))

\* handleSubmit: submitAnswers(), onSubmit(answers), clearQuestions(); the
\* value is the list of snapshots handed to onSubmit
handleSubmitCalls(aqs) == << submitAnswersResult(aqs) >>
handleSubmitStore(aqs) == clearQuestions

\* a click on one of the options of the question shown
HandleOptionSelect ==
    /\ sliderShown(activeQuestionSet)
    /\ \E i \in 1..Len(currentQuestion(activeQuestionSet).options) :
          activeQuestionSet' = selectOption(activeQuestionSet,
                                            currentQuestion(activeQuestionSet).id,
                                            currentQuestion(activeQuestionSet).options[i].id)
    /\ result' = Void
    /\ UNCHANGED <<todos, bash, browser, calls, permissions, marketplace, skills>>

\* typing in the custom answer box: if (value.trim()) setCustomAnswer(id, value.trim())
HandleCustomInput ==
    /\ sliderShown(activeQuestionSet)
    /\ currentQuestion(activeQuestionSet).allowCustom
    /\ \E value \in CustomInputs :
          activeQuestionSet' =
              IF trim(value) # <<>>
              THEN setCustomAnswer(activeQuestionSet, currentQuestion(activeQuestionSet).id, Text(trim(value)))
              ELSE activeQuestionSet
    /\ result' = Void
    /\ UNCHANGED <<todos, bash, browser, calls, permissions, marketplace, skills>>

\* the Previous button: disabled on the first question
HandlePrev ==
    /\ sliderShown(activeQuestionSet)
    /\ ~isFirstQuestion(activeQuestionSet)
    /\ activeQuestionSet' = prevQuestion(activeQuestionSet)
    /\ result' = Void
    /\ UNCHANGED <<todos, bash, browser, calls, permissions, marketplace, skills>>

\* the Next / Submit button: disabled unless canProceed
HandleNext ==
    /\ sliderShown(activeQuestionSet)
    /\ canProceed(activeQuestionSet)
    /\ IF isLastQuestion(activeQuestionSet)
       THEN /\ activeQuestionSet' = handleSubmitStore(submitAnswersStore(activeQuestionSet))
            /\ result' = Ret("handleSubmit", activeQuestionSet, handleSubmitCalls(activeQuestionSet))
       ELSE /\ activeQuestionSet' = nextQuestion(activeQuestionSet)
            /\ result' = Void
    /\ UNCHANGED <<todos, bash, browser, calls, permissions, marketplace, skills>>

----------------------------------------------------------------------------
(* Skills Marketplace (the UI-facing search) and the skill tools *)

\* what the user types in the search box
SearchQueries == { "", "s", "sl" }

\* searches awaited at once
MaxSearches == 2

\* searchSkillRegistry: try { return await window.api.skillRegistrySearch(query) } catch { return [] }
searchSkillRegistry(reply) == IF reply.kind = "throw" THEN <<>> ELSE reply.value

\* the effect on [open, searchQuery] when the dialog is open: the pending
\* timeout is cleared, setIsLoading(true), a 300 ms timeout holding the
\* query is scheduled; searches already in flight are left alone
scheduleSearch(m, query) ==
    [m EXCEPT !.isLoading = TRUE, !.timer = <<query>>]

\* the cleanup of the effect: clearTimeout(timeout)
clearSearchTimeout(m) == [m EXCEPT !.timer = <<>>]

\* the dialog is opened: the effect runs with the query typed so far
MarketplaceOpen ==
    /\ ~marketplace.open
    /\ marketplace' = scheduleSearch([marketplace EXCEPT !.open = TRUE], marketplace.searchQuery)
    /\ UNCHANGED <<activeQuestionSet, todos, bash, browser, calls, permissions, skills, result>>

\* the dialog is closed: the cleanup runs, the effect returns at `if (!open)`
MarketplaceClose ==
    /\ marketplace.open
    /\ marketplace' = clearSearchTimeout([marketplace EXCEPT !.open = FALSE])
    /\ UNCHANGED <<activeQuestionSet, todos, bash, browser, calls, permissions, skills, result>>

\* the query is edited: setSearchQuery(e.target.value), then cleanup and effect
MarketplaceEdit ==
    \E query \in SearchQueries :
        /\ marketplace.open
        /\ query # marketplace.searchQuery
        /\ marketplace' = scheduleSearch(clearSearchTimeout([marketplace EXCEPT !.searchQuery = query]), query)
        /\ UNCHANGED <<activeQuestionSet, todos, bash, browser, calls, permissions, skills, result>>

\* the timeout fires: searchSkillRegistry(searchQuery || '') is called and awaited
MarketplaceTimer ==
    /\ marketplace.timer # <<>>
    /\ Len(marketplace.inflight) < MaxSearches
    /\ marketplace' = [marketplace EXCEPT !.timer = <<>>,
                                          !.inflight = Append(@, OrElse(marketplace.timer[1], ""))]
    /\ UNCHANGED <<activeQuestionSet, todos, bash, browser, calls, permissions, skills, result>>

\* the answer of one search in flight arrives: setRegistrySkills(results); setIsLoading(false)
MarketplaceSearch ==
    \E i \in 1..Len(marketplace.inflight) : \E o \in SkillSearchOutcomes :
        /\ marketplace' = [marketplace EXCEPT
                              !.inflight = SubSeq(@, 1, i - 1) \o SubSeq(@, i + 1, Len(@)),
                              !.registrySkills = searchSkillRegistry(o.reply),
                              !.isLoading = FALSE,
                              !.searched = <<o.env>>,
                              !.shown = <<marketplace.inflight[i]>>]
        /\ UNCHANGED <<activeQuestionSet, todos, bash, browser, calls, permissions, skills, result>>

SkillToolInvoke == ToolInvokeOf({"searchSkills", "installSkill"}, {1})

----------------------------------------------------------------------------

Init ==
    /\ activeQuestionSet = Null
    /\ todos = <<>>
    /\ bash = NoBashCall
    /\ permissions = [session |-> {}, persisted |-> {}]
    /\ marketplace = [open |-> FALSE, searchQuery |-> "", timer |-> <<>>, inflight |-> <<>>,
                      registrySkills |-> <<>>, isLoading |-> FALSE, searched |-> <<>>, shown |-> <<>>]
    /\ skills = <<>>
    /\ calls = [s \in Slots |-> NoToolCall]
    /\ browser = [settings |-> Settings(Undefined), showSelectionDialog |-> FALSE, call |-> NoBrowserCall]
    /\ result = Void

NextQuestions ==
    \/ AskQuestion
    \/ SelectOption
    \/ SetCustomAnswer
    \/ NextQuestion
    \/ PrevQuestion
    \/ SubmitAnswers
    \/ ClearQuestions
    \/ HasUnansweredQuestions

SpecQuestions == Init /\ [][NextQuestions]_vars

NextTodos ==
    \/ TodoWrite
    \/ AddTodo
    \/ UpdateTodo
    \/ RemoveTodo
    \/ ClearTodos

SpecTodos == Init /\ [][NextTodos]_vars

NextTodoEdits ==
    \/ SetTodosCall
    \/ UpdateTodoCall
    \/ RemoveTodoCall

SpecTodoEdits == Init /\ [][NextTodoEdits]_vars

NextBash ==
    \/ BashExecute
    \/ FsBashHandler
    \/ BashReturn

SpecBash == Init /\ [][NextBash]_vars

\* both entry points of the main process that spawn a shell command
NextShell ==
    \/ BashExecute
    \/ FsBashHandler
    \/ BashReturn
    \/ ShellExecute

SpecShell == Init /\ [][NextShell]_vars

NextBrowser ==
    \/ BrowserToolStart
    \/ CheckBrowserConfigured
    \/ BrowserApi
    \/ SelectBrowser
    \/ DismissDialog

SpecBrowser == Init /\ [][NextBrowser]_vars

NextCatalog ==
    \/ ToolInvoke
    \/ ToolStep
    \/ SelectBrowser
    \/ DismissDialog

SpecCatalog == Init /\ [][NextCatalog]_vars

NextPermissions ==
    \/ PermissionsCheck
    \/ PermissionsGrant
    \/ PermissionsRevoke
    \/ PermissionsClearSession

SpecPermissions == Init /\ [][NextPermissions]_vars

NextSessionKeys ==
    \/ CheckAny
    \/ GrantAny
    \/ RevokeAny
    \/ PermissionsClearSession

SpecSessionKeys == Init /\ [][NextSessionKeys]_vars

NextSkills ==
    \/ SkillToolInvoke
    \/ ToolStep
    \/ MarketplaceOpen
    \/ MarketplaceClose
    \/ MarketplaceTimer
    \/ MarketplaceSearch

SpecSkills == Init /\ [][NextSkills]_vars

\* the hosting runtime issues todoWrite and askQuestion calls without
\* awaiting the previous one: two executors are in flight at once
ConcurrentInvoke == ToolInvokeOf({"todoWrite", "askQuestion"}, Slots)
ConcurrentStep == ToolStepOf(Slots)

NextConcurrent ==
    \/ ConcurrentInvoke
    \/ ConcurrentStep

SpecConcurrent == Init /\ [][NextConcurrent]_vars

GrepInvoke == ToolInvokeWith({"grep"}, {1}, GrepArgs)

NextGrep ==
    \/ GrepInvoke
    \/ ToolStep

SpecGrep == Init /\ [][NextGrep]_vars

\* installSkill calls issued without awaiting the previous one
InstallInvoke == ToolInvokeOf({"installSkill"}, Slots)

NextInstall ==
    \/ InstallInvoke
    \/ ConcurrentStep

SpecInstall == Init /\ [][NextInstall]_vars

\* the marketplace dialog alone: the query is edited while searches are in flight
NextMarketplace ==
    \/ MarketplaceOpen
    \/ MarketplaceClose
    \/ MarketplaceEdit
    \/ MarketplaceTimer
    \/ MarketplaceSearch

SpecMarketplace == Init /\ [][NextMarketplace]_vars

\* the question UI, with askQuestion calls arriving between the user's clicks
NextSlider ==
    \/ AskQuestion
    \/ HandleOptionSelect
    \/ HandleCustomInput
    \/ HandlePrev
    \/ HandleNext

SpecSlider == Init /\ [][NextSlider]_vars

Next ==
    \/ NextQuestions \/ NextTodos \/ NextBash \/ NextBrowser
    \/ NextCatalog \/ NextPermissions \/ NextSkills \/ NextConcurrent \/ NextGrep \/ NextTodoEdits \/ NextShell \/ NextSessionKeys \/ NextInstall \/ NextMarketplace \/ NextSlider

Spec == Init /\ [][Next]_vars

----------------------------------------------------------------------------
(* Question Store: properties *)

HasActiveSet == activeQuestionSet # Null
Questions == activeQuestionSet.questions
QIdx == 1..Len(Questions)

\* C1: no question of the active set holds both a selectedOptionId and a
\* customAnswer, whatever sequence of store operations led to the state.
C1_MutualExclusion ==
    HasActiveSet =>
        \A i \in QIdx :
            Questions[i].selectedOptionId = Undefined \/ Questions[i].customAnswer = Undefined

\* A question holds a custom answer while another holds a selection.
C1_Witness ==
    /\ HasActiveSet
    /\ \E i \in QIdx : Questions[i].customAnswer = "t"
    /\ \E i \in QIdx : Questions[i].selectedOptionId = "x"

\* C2: right after setQuestions / askQuestion the active set holds exactly
\* the supplied questions in the supplied order (a question supplied without
\* an id gets the fallback id q-<index>), currentIndex 0, submitted false, no
\* selection or custom answer, and the returned id is the active set's id.
C2_SetQuestionsReplaces ==
    result.op = "setQuestions" =>
        /\ HasActiveSet
        /\ Len(Questions) = Len(result.arg)
        /\ \A i \in QIdx :
            /\ Questions[i].question = result.arg[i].question
            /\ Questions[i].options = result.arg[i].options
            /\ Questions[i].allowCustom = result.arg[i].allowCustom
            /\ result.arg[i].id # "" => Questions[i].id = result.arg[i].id
            /\ result.arg[i].id = "" => Questions[i].id = <<"q-0", "q-1", "q-2", "q-3">>[i]
            /\ Questions[i].selectedOptionId = Undefined
            /\ Questions[i].customAnswer = Undefined
        /\ activeQuestionSet.currentIndex = 0
        /\ activeQuestionSet.submitted = FALSE
        /\ result.val = activeQuestionSet.id

\* A two-question set was just installed, its second question without an id.
C2_Witness ==
    /\ result.op = "setQuestions"
    /\ Len(result.arg) = 2
    /\ result.arg[2].id = ""
    /\ result.arg[1].id = "a"

\* The option of q that q.selectedOptionId names (the labels it can carry).
SelectedLabels(q) == { q.options[k].label : k \in { j \in 1..Len(q.options) : q.options[j].id = q.selectedOptionId } }

\* C3: the snapshot submitAnswers returns has an entry for every question,
\* keyed by its id: the label of the selected option when one is selected,
\* the custom text when one is recorded, both undefined when neither is.
C3_SnapshotPerQuestion ==
    (result.op = "submitAnswers" /\ HasActiveSet) =>
        \A i \in QIdx :
            LET q == Questions[i] IN
            /\ q.id \in DOMAIN result.val
            /\ (q.selectedOptionId # Undefined /\ SelectedLabels(q) # {})
                  => result.val[q.id].selectedOption \in SelectedLabels(q)
            /\ q.customAnswer # Undefined
                  => result.val[q.id].customAnswer = q.customAnswer
            /\ (q.selectedOptionId = Undefined /\ q.customAnswer = Undefined)
                  => /\ result.val[q.id].selectedOption = Undefined
                     /\ result.val[q.id].customAnswer = Undefined

\* C4: submitAnswers changes only the submitted flag; the set becomes null
\* only through clearQuestions; with no active set it returns an empty map
\* and leaves the store null.
C4_SubmitFrame ==
    [][ /\ result'.op = "submitAnswers" =>
            IF activeQuestionSet = Null
            THEN activeQuestionSet' = Null /\ result'.val = <<>>
            ELSE /\ activeQuestionSet' # Null
                 /\ activeQuestionSet'.id = activeQuestionSet.id
                 /\ activeQuestionSet'.questions = activeQuestionSet.questions
                 /\ activeQuestionSet'.currentIndex = activeQuestionSet.currentIndex
                 /\ activeQuestionSet'.submitted = TRUE
        /\ (activeQuestionSet # Null /\ activeQuestionSet' = Null)
              => result'.op = "clearQuestions" ]_vars

\* A partially answered set, moved to its second question, was submitted.
C4_Witness ==
    /\ result.op = "submitAnswers"
    /\ HasActiveSet
    /\ activeQuestionSet.submitted
    /\ activeQuestionSet.currentIndex = 1
    /\ Questions[1].selectedOptionId = "x"
    /\ Questions[2].customAnswer = Undefined

\* C5: hasUnansweredQuestions is false with no active set or a submitted
\* one, and otherwise true exactly when some question has neither a selected
\* option nor a custom answer, for every id and text the store can record.
C5_HasUnanswered ==
    result.op = "hasUnansweredQuestions" =>
        result.val =
            (/\ HasActiveSet
             /\ ~activeQuestionSet.submitted
             /\ \E i \in QIdx :
                    /\ Questions[i].selectedOptionId = Undefined
                    /\ Questions[i].customAnswer = Undefined)

\* C6: the index of an active set stays within [0, length - 1].
C6_IndexInRange ==
    HasActiveSet =>
        /\ 0 <= activeQuestionSet.currentIndex
        /\ activeQuestionSet.currentIndex <= Len(Questions) - 1

\* The index sits on the last question of a set of two or more.
C6_Witness ==
    /\ HasActiveSet
    /\ Len(Questions) >= 2
    /\ activeQuestionSet.currentIndex = Len(Questions) - 1
    /\ result = Void

----------------------------------------------------------------------------
(* Todo Store: properties *)

TIdx == 1..Len(todos)

\* `todo-${Date.now()}-${i}` for the i-th (0-based) item
GeneratedIds(i) == { "todo-" \o ToString(t) \o "-" \o ToString(i) : t \in Times }

\* C7: after todoWrite(L) the store holds exactly len(L) items in the order
\* of L, each with L's content and status and with L's id when one was
\* supplied (a generated id otherwise), and the tool result reports the ids
\* stored; nothing of the previous list is left besides what L re-sent.
C7_TodoWriteReplaces ==
    result.op = "todoWrite" =>
        /\ Len(todos) = Len(result.arg)
        /\ Len(result.val.todos) = Len(todos)
        /\ result.val.count = Len(todos)
        /\ \A i \in TIdx :
            /\ todos[i].content = result.arg[i].content
            /\ todos[i].status = result.arg[i].status
            /\ result.arg[i].id \notin {Undefined, ""} => todos[i].id = result.arg[i].id
            /\ result.arg[i].id \in {Undefined, ""} => todos[i].id \in GeneratedIds(i - 1)
            /\ result.val.todos[i].id = todos[i].id

\* The item written first without an id was written again under the id the
\* first call generated, now completed: the store holds that one item.
C7_Witness ==
    /\ result.op = "todoWrite"
    /\ result.arg = <<Todo("todo-1-0", "Scan repo", "completed")>>
    /\ todos = <<Todo("todo-1-0", "Scan repo", "completed")>>

\* C8: the ids of the stored todo items are pairwise distinct.
C8_UniqueIds ==
    \A i, j \in TIdx : i # j => todos[i].id # todos[j].id

----------------------------------------------------------------------------
(* bash tool: properties *)

\* the rules of the blocked-pattern list a command matches
Matched(command) == { k \in 1..Len(BLOCKED_PATTERNS) : Test(BLOCKED_PATTERNS[k], command) }

\* C9: a command that matches at least one blocked pattern (in any letter
\* case, with any run of whitespace) is never handed to execAsync, and the
\* bash tool returns an error result whose message names a matched pattern.
C9_BlockedNeverRuns ==
    /\ (bash.pc \in {"reply", "idle"} /\ Matched(bash.command) # {}) =>
          /\ bash.exec = <<>>
          /\ (bash.pc = "idle" /\ result.op = "bash") =>
                /\ "error" \in DOMAIN result.val
                /\ result.val.error = TRUE
                /\ result.val.message.pattern \in Matched(bash.command)
    /\ (bash.pc \in {"reply", "idle"} /\ bash.command \in {CmdSudoRmUpper, CmdMkfs, CmdRmUpperFlags}) =>
          bash.exec = <<>>

\* "sudo   RM -rf /" came back from the tool as an error result.
C9_Witness ==
    /\ bash.pc = "idle"
    /\ bash.command = CmdSudoRmUpper
    /\ result.op = "bash"
    /\ "error" \in DOMAIN result.val
    /\ bash.exec = <<>>

\* C10 as stated: the dispatched timeout is 30000 when none is supplied, the
\* caller's value when it is at most 120000, and 120000 otherwise; the
\* timeout applied to the process never exceeds 120000.
C10_TimeoutAsStated ==
    bash.command # <<>> =>
        /\ bash.options.timeout =
              IF bash.timeout = <<>> THEN 30000
              ELSE IF bash.timeout[1] <= 120000 THEN bash.timeout[1]
              ELSE 120000
        /\ \A i \in DOMAIN bash.exec : bash.exec[i].timeout <= 120000

\* C10, amended: the dispatched timeout is 30000 when the caller supplies
\* none or supplies 0, the caller's value when it is non-zero and at most
\* 120000, and 120000 otherwise; the timeout applied to the process is the
\* dispatched one and never exceeds 120000.
C10_TimeoutClamped ==
    bash.command # <<>> =>
        /\ bash.options.timeout =
              IF bash.timeout = <<>> THEN 30000
              ELSE IF bash.timeout[1] = 0 THEN 30000
              ELSE IF bash.timeout[1] <= 120000 THEN bash.timeout[1]
              ELSE 120000
        /\ \A i \in DOMAIN bash.exec :
              /\ bash.exec[i].timeout = bash.options.timeout
              /\ bash.exec[i].timeout <= 120000

\* bash("ls", {timeout: 200000}) reached execAsync with a timeout of 120000.
C10_Witness ==
    /\ bash.command = CmdLs
    /\ bash.timeout = <<200000>>
    /\ bash.exec # <<>>
    /\ bash.exec[1].timeout = 120000

\* the process of the call exited by itself (not ended on the timeout)
RanToCompletion ==
    /\ bash.exec # <<>>
    /\ ~bash.exec[1].outcome.killed
    /\ (bash.exec[1].outcome.kind = "reject" => bash.exec[1].outcome.code # <<>>)

\* the exit code of that process
ProcessExitCode ==
    IF bash.exec[1].outcome.kind = "resolve" THEN 0 ELSE bash.exec[1].outcome.code[1]

BashReturned == bash.pc = "idle" /\ result.op = "bash"

\* C11 as stated: for a command that ran to completion, fs:bash returns (it
\* does not throw) and the tool result carries the process's exit code, its
\* standard output and its standard error as captured (an empty stream may be
\* reported as absent); a non-zero exit is a returned failure result.
C11_StreamsAsCaptured ==
    (BashReturned /\ RanToCompletion) =>
        /\ bash.reply.kind = "return"
        /\ {"exitCode", "stdout", "stderr"} \subseteq DOMAIN result.val
        /\ result.val.exitCode = ProcessExitCode
        /\ result.val.stdout = bash.exec[1].outcome.stdout
        /\ OrElse(result.val.stderr, "") = bash.exec[1].outcome.stderr
        /\ ProcessExitCode # 0 =>
              /\ result.val.success = FALSE
              /\ "message" \in DOMAIN result.val

\* C11, amended: for a command that ran to completion, fs:bash returns (it
\* does not throw) and the tool result carries the exit code, standard output
\* and standard error together; standard output is the captured one; standard
\* error is the captured one when it is non-empty, and otherwise absent on
\* exit 0 and the exec error's message on a non-zero exit; a non-zero exit is
\* a returned failure result (success false, with a message) with that code.
C11_StreamsReturned ==
    (BashReturned /\ RanToCompletion) =>
        /\ bash.reply.kind = "return"
        /\ {"exitCode", "stdout", "stderr"} \subseteq DOMAIN result.val
        /\ "error" \notin DOMAIN result.val
        /\ result.val.exitCode = ProcessExitCode
        /\ result.val.stdout = bash.exec[1].outcome.stdout
        /\ result.val.stderr =
              IF bash.exec[1].outcome.stderr # "" THEN bash.exec[1].outcome.stderr
              ELSE IF ProcessExitCode = 0 THEN Undefined
              ELSE bash.exec[1].outcome.message
        /\ result.val.success = (ProcessExitCode = 0)
        /\ ProcessExitCode # 0 => "message" \in DOMAIN result.val

\* A command that exited 2 with output on both streams came back as a
\* failure result carrying the code and the two streams.
C11_Witness ==
    /\ BashReturned
    /\ RanToCompletion
    /\ ProcessExitCode = 2
    /\ result.val.success = FALSE
    /\ result.val.stdout = "out"
    /\ result.val.stderr = "err"

----------------------------------------------------------------------------
(* Browser tools: properties *)

Unconfigured(settings) == settings = Null \/ settings.preferredBrowser = Undefined

\* a browser executor has returned, and the settings held no preferredBrowser
\* from the moment it was invoked until it returned
ReturnedUnconfigured(tool) ==
    /\ browser.call.pc = "idle"
    /\ browser.call.tool = tool
    /\ result.op = tool
    /\ Unconfigured(browser.call.atCall)
    /\ Unconfigured(browser.settings)

\* C12 as stated: every browserNavigate call made while the settings hold no
\* preferredBrowser returns {error: true, needsBrowserSetup: true}, raises
\* the show-selection-dialog flag exactly once and never invokes the
\* navigate primitive.
C12_NavigateUnconfigured ==
    ReturnedUnconfigured("browserNavigate") =>
        /\ result.val.error = TRUE
        /\ "needsBrowserSetup" \in DOMAIN result.val
        /\ result.val.needsBrowserSetup = TRUE
        /\ browser.call.raised = 1
        /\ browser.call.apiCalls = <<>>

\* C12, amended: a browserNavigate call made while the settings hold no
\* preferredBrowser never invokes the navigate primitive; when its settings
\* read succeeds it returns {error: true, needsBrowserSetup: true} and raises
\* the show-selection-dialog flag exactly once; when the settings read fails
\* it returns an error result without the marker and does not raise the flag.
C12_NavigateUnconfiguredRead ==
    ReturnedUnconfigured("browserNavigate") =>
        /\ browser.call.apiCalls = <<>>
        /\ result.val.error = TRUE
        /\ browser.call.read = "return" =>
              /\ "needsBrowserSetup" \in DOMAIN result.val
              /\ result.val.needsBrowserSetup = TRUE
              /\ browser.call.raised = 1
        /\ browser.call.read = "reject" =>
              /\ "needsBrowserSetup" \notin DOMAIN result.val
              /\ browser.call.raised = 0

\* browserNavigate came back with the marker while the dialog it raised is
\* still open and no browser is chosen: the call did not wait for the user.
C12_Witness ==
    /\ ReturnedUnconfigured("browserNavigate")
    /\ browser.call.read = "return"
    /\ result.val = NeedsBrowserSetupResult
    /\ browser.showSelectionDialog
    /\ browser.call.raised = 1

\* C13: while no preferredBrowser is set, every browser tool (navigate,
\* click, type, press, scroll, getContent, getLinks, screenshot, close) whose
\* settings read does not fail returns the needsBrowserSetup marker, raises
\* the show-selection-dialog flag and does not reach its browser primitive.
C13_AllToolsGated ==
    \A tool \in BrowserTools :
        (ReturnedUnconfigured(tool) /\ browser.call.read # "reject") =>
            /\ "needsBrowserSetup" \in DOMAIN result.val
            /\ browser.call.raised >= 1
            /\ browser.call.apiCalls = <<>>

----------------------------------------------------------------------------
(* Tool catalog: properties *)

\* the executor of slot s has completed (the call passed the schema)
Completed(s) ==
    /\ calls[s].pc = "idle"
    /\ calls[s].outcome.kind \in {"return", "throw"}

\* some collaborator the executor of slot s awaited threw or rejected
CollaboratorThrew(s) ==
    \E i \in 1..Len(calls[s].awaited) : calls[s].awaited[i].reply.kind = "throw"

\* C14: whatever its collaborators did (normal return, error-shaped return,
\* thrown fault, rejected promise), every executor of the catalog completes
\* by returning a value and never lets a fault past the tool boundary; when a
\* collaborator threw, the value returned is {error: true, message, ...}.
C14_NoFaultPastBoundary ==
    \A s \in Slots :
        /\ calls[s].pc = "run" =>
              execute(calls[s].name, calls[s].args, calls[s].now, Replies(calls[s].awaited)).kind
                  \in {"await", "return"}
        /\ Completed(s) =>
              /\ calls[s].outcome.kind = "return"
              /\ CollaboratorThrew(s) =>
                    /\ calls[s].outcome.value.error = TRUE
                    /\ "message" \in DOMAIN calls[s].outcome.value

\* installSkill returned an error result after its third collaborator,
\* createSkill, threw.
C14_Witness ==
    /\ Completed(1)
    /\ calls[1].name = "installSkill"
    /\ Len(calls[1].awaited) = 3
    /\ calls[1].awaited[3].reply.kind = "throw"
    /\ calls[1].outcome.value.error = TRUE

\* the call of slot s was rejected for its arguments
Rejected(s) == calls[s].pc = "idle" /\ calls[s].outcome = SchemaViolation

\* C15: an askQuestion call whose arguments violate the schema (fewer than 1
\* or more than 5 questions, a question with fewer than 2 or more than 5
\* options) never starts the executor and leaves the Question Store as it
\* was; every question set in the store has 1 to 5 questions with 2 to 5
\* options each.
C15_SchemaBeforeExecutor ==
    /\ [](\A s \in Slots : Rejected(s) => calls[s].awaited = <<>>)
    /\ [](HasActiveSet =>
            /\ Len(Questions) \in 1..5
            /\ \A i \in QIdx : Len(Questions[i].options) \in 2..5)
    /\ [][\A s \in Slots :
            (calls'[s] # calls[s] /\ calls'[s].name = "askQuestion"
               /\ ~(/\ Len(calls'[s].args.questions) \in 1..5
                    /\ \A i \in 1..Len(calls'[s].args.questions) :
                          Len(calls'[s].args.questions[i].options) \in 2..5))
            => /\ calls'[s].outcome = SchemaViolation
               /\ calls'[s].pc = "idle"
               /\ activeQuestionSet' = activeQuestionSet]_vars

\* A set of five questions with five options each is displayed, and the call
\* that followed it with six questions was rejected.
C15_Witness ==
    /\ HasActiveSet
    /\ Len(Questions) = 5
    /\ Len(Questions[5].options) = 5
    /\ Rejected(1)
    /\ calls[1].name = "askQuestion"
    /\ Len(calls[1].args.questions) = 6

----------------------------------------------------------------------------
(* Permission handlers: properties *)

SessionGrant(path, operation) == permissionKey(path, operation) \in permissions.session

PersistedGrants(path, operation) ==
    { r \in permissions.persisted : r.path = path /\ r.operation = operation }

\* C16: permissions:check answers from the session grants first: with a
\* session grant for (path, operation) it returns a grant of scope 'session'
\* for that pair whatever the persisted row says; without one, what it
\* returns is the persisted row of the pair, and no grant when there is none.
C16_SessionBeforePersisted ==
    result.op = "permissions:check" =>
        LET path == result.arg.path
            operation == result.arg.operation
        IN  IF SessionGrant(path, operation)
            THEN /\ result.val.kind = "return"
                 /\ result.val.value.scope = "session"
                 /\ result.val.value.path = path
                 /\ result.val.value.operation = operation
            ELSE result.val.kind = "return" =>
                    IF PersistedGrants(path, operation) = {}
                    THEN result.val.value = Null
                    ELSE result.val.value \in PersistedGrants(path, operation)

\* check answered 'session' for a pair that also has a persisted 'always' row.
C16_Witness ==
    /\ result.op = "permissions:check"
    /\ SessionGrant(result.arg.path, result.arg.operation)
    /\ PersistedGrants(result.arg.path, result.arg.operation) # {}
    /\ result.val.value.scope = "session"

\* C17: once permissions:revoke(path, operation) has completed, whatever
\* session and persisted grants existed before, the handler has not failed
\* and permissions:check finds no grant for the pair: no session entry and
\* no persisted row.
C17_RevokeRemovesGrants ==
    result.op = "permissions:revoke" =>
        /\ result.val.kind = "return"
        /\ ~SessionGrant(result.arg.path, result.arg.operation)
        /\ PersistedGrants(result.arg.path, result.arg.operation) = {}

----------------------------------------------------------------------------
(* Skill registry search: properties *)

NetworkFailed(env) == env.kind = "reject"

\* C18: when the fetch of the skill registry fails, the marketplace search
\* shows an empty list, and the searchSkills tool returns an error result
\* (error true) with a suggestion, not a success with no skills.
C18_SearchFailurePaths ==
    /\ (marketplace.searched # <<>> /\ ~marketplace.isLoading /\ NetworkFailed(marketplace.searched[1]))
          => marketplace.registrySkills = <<>>
    /\ (Completed(1) /\ calls[1].name = "searchSkills" /\ NetworkFailed(calls[1].awaited[1].env))
          => /\ "error" \in DOMAIN calls[1].outcome.value
             /\ calls[1].outcome.value.error = TRUE
             /\ calls[1].outcome.value.suggestion # Undefined

----------------------------------------------------------------------------
(* Concurrent store writers: properties *)

\* the executor of slot s has made its store call
Wrote(s, name) ==
    /\ calls[s].name = name
    /\ calls[s].awaited # <<>>

\* the list the todoWrite call of slot s hands to the Todo Store
WrittenTodos(s) == mappedTodos(calls[s].args.todos, calls[s].now)

\* the question set the askQuestion call of slot s installs
WrittenQuestions(s) == setQuestions(calls[s].args.questions, calls[s].now)

\* slot s makes its store call in this step
Writes(s, name) ==
    /\ calls[s].pc = "run"
    /\ calls[s].name = name
    /\ calls[s].awaited = <<>>
    /\ calls'[s].awaited # <<>>

\* what one step of the two executors does to the stores and to the calls
StoreWriteStep ==
    /\ \A s \in Slots : Writes(s, "todoWrite") => todos' = WrittenTodos(s)
    /\ \A s \in Slots : Writes(s, "askQuestion") => activeQuestionSet' = WrittenQuestions(s)
    /\ \A s \in Slots : (calls'[s] # calls[s]) => (\A t \in Slots \ {s} : calls'[t] = calls[t])
    /\ (todos' # todos) => (\E w \in Slots : Writes(w, "todoWrite"))
    /\ (activeQuestionSet' # activeQuestionSet) => (\E w \in Slots : Writes(w, "askQuestion"))

\* C19: with two todoWrite (or two askQuestion) calls in flight in any
\* interleaving, each store write installs exactly the complete list of the
\* call that makes it, the store changes in no other step, so afterwards it
\* holds the complete list of one call, the last to write, never a mixture;
\* a step of one executor changes nothing of the other executor.
C19_LastWriterWins ==
    /\ []((Wrote(1, "todoWrite") /\ Wrote(2, "todoWrite"))
            => todos \in {WrittenTodos(1), WrittenTodos(2)})
    /\ []((Wrote(1, "askQuestion") /\ Wrote(2, "askQuestion"))
            => activeQuestionSet \in {WrittenQuestions(1), WrittenQuestions(2)})
    /\ [][StoreWriteStep]_vars

\* two todoWrite calls with different non-empty lists are both past their
\* store call and neither has returned; the store holds the list of the
\* second slot
C19_Witness ==
    /\ \A s \in Slots : calls[s].pc = "run" /\ Wrote(s, "todoWrite")
    /\ WrittenTodos(1) # <<>>
    /\ WrittenTodos(2) # <<>>
    /\ WrittenTodos(1) # WrittenTodos(2)
    /\ todos = WrittenTodos(2)

----------------------------------------------------------------------------
(* The grep tool: properties *)

\* the grep call of slot 1 has returned what the handler found under a
\* path that exists
GrepReturned ==
    /\ Completed(1)
    /\ calls[1].name = "grep"
    /\ calls[1].awaited[1].env.stat # "missing"

GrepTreeSearched == calls[1].awaited[1].env
GrepReturnedMatches == calls[1].outcome.value.matches

\* <<k, i>>: line i of the k-th file matches and the file can be read
MatchingLines(tree, pattern) ==
    { <<k, i>> \in (1..Len(tree.files)) \X (1..(GREP_TOOL_MAX_RESULTS + 2)) :
        /\ tree.files[k].readable
        /\ i <= Len(tree.files[k].lines)
        /\ Test(grepRegex(pattern).re, tree.files[k].lines[i]) }

\* the place of a returned match in the tree
PlaceOf(tree, m) ==
    <<CHOOSE k \in 1..Len(tree.files) : tree.files[k].path = m.file, m.line>>

\* file and line order
Before(a, b) == a[1] < b[1] \/ (a[1] = b[1] /\ a[2] < b[2])

\* matches are exactly the first n matching lines of the tree, in order
FirstMatches(matches, n, tree, pattern) ==
    LET all == MatchingLines(tree, pattern)
        place(j) == PlaceOf(tree, matches[j])
    IN  /\ Len(matches) = Min(n, Cardinality(all))
        /\ \A j \in 1..Len(matches) : place(j) \in all
        /\ \A j \in 1..Len(matches) : \A h \in 1..Len(matches) : j < h => Before(place(j), place(h))
        /\ \A j \in 1..Len(matches) : \A q \in all :
              Before(q, place(j)) => \E h \in 1..Len(matches) : place(h) = q

\* C20 as stated: the grep tool returns at most cap matches, cap being the
\* caller's maxResults when supplied and 50 otherwise, and when at least cap
\* lines match, exactly the first cap of them in file and line order.
C20_CapIsMaxResults ==
    GrepReturned =>
        LET cap == IF calls[1].args.maxResults = <<>> THEN GREP_TOOL_MAX_RESULTS
                   ELSE calls[1].args.maxResults[1]
        IN  /\ Len(GrepReturnedMatches) <= cap
            /\ FirstMatches(GrepReturnedMatches, cap, GrepTreeSearched, calls[1].args.pattern)

\* C20: the grep tool returns at most cap matches, cap being the caller's
\* maxResults when it is supplied and not 0, and 50 when it is absent or 0
\* (never the handler's 100); the scan stops once cap matches are recorded,
\* so the result is exactly the first cap matching lines in file and line
\* order, or all of them when fewer than cap lines match.
C20_CapIsNonZeroMaxResults ==
    GrepReturned =>
        LET cap == IF calls[1].args.maxResults = <<>> THEN GREP_TOOL_MAX_RESULTS
                   ELSE IF calls[1].args.maxResults[1] = 0 THEN GREP_TOOL_MAX_RESULTS
                   ELSE calls[1].args.maxResults[1]
        IN  /\ Len(GrepReturnedMatches) <= cap
            /\ FirstMatches(GrepReturnedMatches, cap, GrepTreeSearched, calls[1].args.pattern)

\* grep without maxResults over a tree with more matching lines than the
\* tool's default, spread over two files: the default many are returned
C20_Witness ==
    /\ GrepReturned
    /\ calls[1].args.maxResults = <<>>
    /\ Cardinality(MatchingLines(GrepTreeSearched, calls[1].args.pattern)) > GREP_TOOL_MAX_RESULTS
    /\ Len(GrepReturnedMatches) = GREP_TOOL_MAX_RESULTS

----------------------------------------------------------------------------
(* The grep pattern: properties *)

\* the line contains the pattern as text, letter case aside
LineContains(line, pattern) ==
    \E p \in 1..Len(line) :
        /\ p + Len(pattern) - 1 <= Len(line)
        /\ \A j \in 1..Len(pattern) : Lower(line[p + j - 1]) = Lower(pattern[j])

\* <<k, i>>: line i of the k-th file contains the pattern as text
LiteralLines(tree, pattern) ==
    { <<k, i>> \in (1..Len(tree.files)) \X (1..(GREP_TOOL_MAX_RESULTS + 2)) :
        /\ tree.files[k].readable
        /\ i <= Len(tree.files[k].lines)
        /\ LineContains(tree.files[k].lines[i], pattern) }

\* the grep call of slot 1 has completed over a path that exists
GrepCompleted ==
    /\ Completed(1)
    /\ calls[1].name = "grep"
    /\ calls[1].awaited[1].env.stat # "missing"

InvalidPattern(pattern) == ~RegExp(pattern).ok

\* C21: for every grep pattern, a regular expression or not, the search of
\* an existing path completes with a list of matches and not with a
\* failure; a pattern that does not compile is searched for as text: the
\* lines returned are lines that contain it literally, as many of them as
\* the cap allows.
C21_PatternNeverFails ==
    GrepCompleted =>
        /\ calls[1].outcome.kind = "return"
        /\ "matches" \in DOMAIN calls[1].outcome.value
        /\ InvalidPattern(calls[1].args.pattern) =>
              LET literal == LiteralLines(GrepTreeSearched, calls[1].args.pattern)
                  cap == NumOrElse(calls[1].args.maxResults, GREP_TOOL_MAX_RESULTS)
              IN  /\ \A j \in 1..Len(GrepReturnedMatches) :
                        PlaceOf(GrepTreeSearched, GrepReturnedMatches[j]) \in literal
                  /\ Len(GrepReturnedMatches) = Min(cap, Cardinality(literal))

\* grep with an unterminated group as its pattern has found the line that
\* contains it as text
C21_Witness ==
    /\ GrepCompleted
    /\ calls[1].args.pattern = <<"(", "x">>
    /\ InvalidPattern(calls[1].args.pattern)
    /\ Len(GrepReturnedMatches) = 1
    /\ GrepReturnedMatches[1].match = <<"(", "x">>

----------------------------------------------------------------------------
(* viewImage: properties *)

\* the viewImage call of slot 1 has returned after its read failed
ViewImageFailed ==
    /\ Completed(1)
    /\ calls[1].name = "viewImage"
    /\ calls[1].awaited[1].reply.kind = "throw"

HandlerMissing == calls[1].awaited[1].env = "nohandler"

\* C22: every viewImage failure is classified one way: with no handler
\* registered for the binary read the result is an error that is not
\* retryable and requires a restart; every other read fault gives an error
\* that is retryable and requires no restart.
C22_FailureClassified ==
    ViewImageFailed =>
        /\ calls[1].outcome.value.error = TRUE
        /\ HandlerMissing =>
              /\ calls[1].outcome.value.retryable = FALSE
              /\ calls[1].outcome.value.requiresRestart = TRUE
        /\ ~HandlerMissing =>
              /\ calls[1].outcome.value.retryable = TRUE
              /\ calls[1].outcome.value.requiresRestart = FALSE

----------------------------------------------------------------------------
(* listDirectory: properties *)

\* the listDirectory call of slot 1 has returned the entries of a directory
\* that could be read
DirectoryListed ==
    /\ Completed(1)
    /\ calls[1].name = "listDirectory"
    /\ calls[1].awaited[1].reply.kind = "return"

\* C23: every entry listDirectory returns gives the name and path of the
\* directory entry and a folder/file discriminator, and its size is present
\* when the entry is a file and omitted when it is a folder.
C23_SizeForFilesOnly ==
    DirectoryListed =>
        LET items == calls[1].awaited[1].reply.value
            entries == calls[1].outcome.value
        IN  /\ Len(entries) = Len(items)
            /\ \A i \in 1..Len(items) :
                  /\ entries[i].name = items[i].name
                  /\ entries[i].path = items[i].path
                  /\ entries[i].type = (IF items[i].isDirectory THEN "folder" ELSE "file")
                  /\ (entries[i].size # Undefined) <=> ~items[i].isDirectory

----------------------------------------------------------------------------
(* Todo Store mutators: properties *)

\* the places of the list that hold an item with the id
Targets(list, id) == { i \in 1..Len(list) : list[i].id = id }

\* the list without its t-th item
Without(list, t) == SubSeq(list, 1, t - 1) \o SubSeq(list, t + 1, Len(list))

\* C24: updateTodo(id, partial) changes only the content and status named
\* in partial, on the one item with that id: length, order, every id and
\* every other item stay as they were; removeTodo(id) removes exactly the
\* item with that id and keeps the others in order; both leave the list as
\* it was when no item has the id.
C24_MutatorsTouchOnlyTarget ==
    /\ result.op = "updateTodo" =>
          LET before == result.arg.before
              updates == result.arg.updates
              targets == Targets(before, result.arg.id)
          IN  /\ Len(todos) = Len(before)
              /\ \A i \in 1..Len(before) : todos[i].id = before[i].id
              /\ targets = {} => todos = before
              /\ targets # {} =>
                    \E t \in targets :
                        /\ todos[t].content =
                              (IF updates.content = Undefined THEN before[t].content ELSE updates.content)
                        /\ todos[t].status =
                              (IF updates.status = Undefined THEN before[t].status ELSE updates.status)
                        /\ \A i \in 1..Len(before) : i # t => todos[i] = before[i]
    /\ result.op = "removeTodo" =>
          LET before == result.arg.before
              targets == Targets(before, result.arg.id)
          IN  /\ targets = {} => todos = before
              /\ targets # {} => \E t \in targets : todos = Without(before, t)

----------------------------------------------------------------------------
(* Shell entry points: properties *)

\* C25: on every IPC path that spawns a shell command, fs:bash and
\* shell:execute alike, a command that matches a blocked pattern is never
\* handed to execAsync.
C25_NoEntryBypassesGate ==
    bash.exec # <<>> => Matched(bash.exec[1].command) = {}

----------------------------------------------------------------------------
(* Session keys: properties *)

AnyPairs == AnyPaths \X AnyOperations

\* what permissions:check answers for the pair under the grants perms
CheckAnswers(perms, pair) ==
    [storage \in StorageOutcomes |-> permissionsCheck(perms, pair[1], pair[2], storage)]

\* the step is a grant or a revoke of the pair
GrantsOrRevokes(pair) ==
    /\ result'.op \in {"permissions:grant", "permissions:revoke"}
    /\ result'.arg.path = pair[1]
    /\ result'.arg.operation = pair[2]

\* a grant or revoke of one pair leaves the answer of permissions:check for
\* every other pair as it was
OtherPairsUntouched ==
    \A pair \in AnyPairs : GrantsOrRevokes(pair) =>
        \A other \in AnyPairs \ {pair} :
            CheckAnswers(permissions', other) = CheckAnswers(permissions, other)

\* C26: a session grant applies to the exact (path, operation) pair it was
\* granted for: two distinct pairs never share a session key, so a grant or
\* revoke of one pair never changes what permissions:check returns for
\* another pair (clearSession names no pair).
C26_GrantIsPerPair == [][OtherPairsUntouched]_vars

----------------------------------------------------------------------------
(* installSkill: properties *)

\* the awaits of slot s on the api
AwaitsOn(s, api) == { i \in 1..Len(calls[s].awaited) : calls[s].awaited[i].api = api }

\* the installSkill call of slot s has had createSkill carried out
Created(s) ==
    /\ calls[s].name = "installSkill"
    /\ \E i \in AwaitsOn(s, "createSkill") : calls[s].awaited[i].reply.kind = "return"

\* C27: in every interleaving of installSkill calls naming the same skill,
\* createSkill is carried out for at most one of them; a call that finds
\* the name installed returns success with alreadyInstalled and has not
\* called createSkill, and a call whose content fetch gave nothing returns
\* an error and has not called createSkill.
C27_CreatedAtMostOnce ==
    /\ \A s \in Slots : \A t \in Slots :
          (Created(s) /\ Created(t) /\ calls[s].args.name = calls[t].args.name) => s = t
    /\ \A s \in Slots :
          (Completed(s) /\ calls[s].name = "installSkill"
              /\ calls[s].awaited[1].reply.kind = "return"
              /\ \E i \in 1..Len(calls[s].awaited[1].reply.value) :
                    calls[s].awaited[1].reply.value[i].name = calls[s].args.name)
            => /\ calls[s].outcome.value.success = TRUE
               /\ calls[s].outcome.value.alreadyInstalled = TRUE
               /\ AwaitsOn(s, "createSkill") = {}
    /\ \A s \in Slots :
          (Completed(s) /\ calls[s].name = "installSkill"
              /\ Len(calls[s].awaited) = 2
              /\ calls[s].awaited[2].reply.kind = "return"
              /\ Falsy(calls[s].awaited[2].reply.value))
            => /\ calls[s].outcome.value.error = TRUE
               /\ AwaitsOn(s, "createSkill") = {}


----------------------------------------------------------------------------
(* Skills Marketplace debounced search: properties *)

\* typing has stopped and every search has completed: the dialog is open,
\* no timeout is pending and no search is in flight
SearchesSettled ==
    /\ marketplace.open
    /\ marketplace.timer = <<>>
    /\ marketplace.inflight = <<>>

\* C28: in the debounced marketplace search, whatever the query edits and
\* the order in which the answers arrive, once typing has stopped and every
\* outstanding search has completed the displayed list is the answer to the
\* most recent query and the loading flag is off: the answer to an earlier
\* query never replaces the answer to a later one.
C28_LatestQueryShown ==
    SearchesSettled =>
        /\ marketplace.shown = <<marketplace.searchQuery>>
        /\ ~marketplace.isLoading

----------------------------------------------------------------------------
(* Submitted question sets: properties *)

\* a step of the store that is neither a setQuestions nor a clearQuestions
KeepsActiveSet ==
    /\ result'.op # "setQuestions"
    /\ result'.op # "clearQuestions"

\* a submitted set is left as it is, and so is the empty store
SubmittedIsFinal ==
    KeepsActiveSet =>
        /\ (HasActiveSet /\ activeQuestionSet.submitted) => activeQuestionSet' = activeQuestionSet
        /\ ~HasActiveSet => activeQuestionSet' = Null

\* C30: a submitted question set is final: until it is cleared or replaced
\* by a new setQuestions its submitted flag stays true and selectOption,
\* setCustomAnswer, nextQuestion and prevQuestion change neither its answers
\* nor its currentIndex; with no active set the same operations leave the
\* store null.
C30_SubmittedSetIsFinal == [][SubmittedIsFinal]_vars

----------------------------------------------------------------------------
(* Question UI flow: properties *)

\* the last step was a submission made through the slider
Submission == result.op = "handleSubmit"
SubmittedSet == result.arg

Answered(q) == Truthy(q.selectedOptionId) \/ Truthy(q.customAnswer)

====
